---------------------------- MODULE Spec2Model ----------------------------
(***************************************************************************)
(* A model of the adev home animation engine (class Animation) together    *)
(* with the CSS value lexer, parser, stringifier and interpolator it uses. *)
(*                                                                         *)
(* JavaScript numbers are modelled as exact fractions [n, d] in lowest     *)
(* terms with d >= 0; d = 0 encodes the IEEE specials: 0/0 is NaN, 1/0 is  *)
(* Infinity, -1/0 is -Infinity.  JavaScript strings are sequences of       *)
(* one-character strings.  A Map is a sequence of [key, val] entries in    *)
(* insertion order; a plain object is a function from its keys.            *)
(***************************************************************************)
EXTENDS Integers, Sequences, FiniteSets, TLC

-----------------------------------------------------------------------------
(* Numbers *)

Abs(x) == IF x < 0 THEN -x ELSE x

Sign(x) == IF x < 0 THEN -1 ELSE IF x > 0 THEN 1 ELSE 0

RECURSIVE Gcd(_, _)
Gcd(a, b) == IF b = 0 THEN a ELSE Gcd(b, a % b)

\* The fraction n/d in lowest terms; a zero denominator keeps only the sign.
Rat(n, d) ==
  IF d = 0 THEN [n |-> Sign(n), d |-> 0]
  ELSE LET g == Gcd(Abs(n), Abs(d))
           s == IF d < 0 THEN -1 ELSE 1
       IN  [n |-> (s * n) \div g, d |-> (s * d) \div g]

R(i) == [n |-> i, d |-> 1]

NaN == [n |-> 0, d |-> 0]

IsNaN(a) == a.d = 0 /\ a.n = 0

IsFinite(a) == a.d # 0

RAdd(a, b) ==
  IF a.d = 0 /\ b.d = 0
  THEN (IF a.n = b.n THEN a ELSE NaN)
  ELSE Rat(a.n * b.d + b.n * a.d, a.d * b.d)

RNeg(a) == [n |-> -a.n, d |-> a.d]

RSub(a, b) == RAdd(a, RNeg(b))

RMul(a, b) == Rat(a.n * b.n, a.d * b.d)

RDiv(a, b) ==
  IF b.d = 0
  THEN (IF b.n = 0 \/ a.d = 0 THEN NaN ELSE R(0))
  ELSE IF b.n = 0 THEN Rat(a.n, 0)
  ELSE Rat(a.n * b.d * Sign(b.n), a.d * Abs(b.n))

RAbs(a) == [n |-> Abs(a.n), d |-> a.d]

\* a <= b; false whenever NaN is involved, as every IEEE comparison is.
RLeq(a, b) ==
  /\ ~IsNaN(a)
  /\ ~IsNaN(b)
  /\ IF a.d = 0 THEN a.n < 0 \/ a = b
     ELSE IF b.d = 0 THEN b.n > 0
     ELSE a.n * b.d <= b.n * a.d

RLt(a, b) == RLeq(a, b) /\ a # b

RMax(a, b) == IF IsNaN(a) \/ IsNaN(b) THEN NaN ELSE IF RLeq(a, b) THEN b ELSE a

RMin(a, b) == IF IsNaN(a) \/ IsNaN(b) THEN NaN ELSE IF RLeq(a, b) THEN a ELSE b

\* Math.round: the nearest integer, halves towards +Infinity.
RRound(a) ==
  IF a.d = 0 THEN a ELSE R((2 * a.n + a.d) \div (2 * a.d))

-----------------------------------------------------------------------------
(* Characters and strings *)

Digits == <<"0", "1", "2", "3", "4", "5", "6", "7", "8", "9">>

IsDigit(c) == \E i \in 1..10 : Digits[i] = c

DigitVal(c) == (CHOOSE i \in 1..10 : Digits[i] = c) - 1

Letters ==
  { "a", "b", "c", "d", "e", "f", "g", "h", "i", "j", "k", "l", "m",
    "n", "o", "p", "q", "r", "s", "t", "u", "v", "w", "x", "y", "z",
    "A", "B", "C", "D", "E", "F", "G", "H", "I", "J", "K", "L", "M",
    "N", "O", "P", "Q", "R", "S", "T", "U", "V", "W", "X", "Y", "Z" }

RECURSIVE Pow10(_)
Pow10(k) == IF k = 0 THEN 1 ELSE 10 * Pow10(k - 1)

\* The longest prefix of s made of digits, from position i on.
RECURSIVE DigitRun(_, _)
DigitRun(s, i) ==
  IF i <= Len(s) /\ IsDigit(s[i]) THEN <<s[i]>> \o DigitRun(s, i + 1) ELSE <<>>

RECURSIVE DigitsValue(_, _)
DigitsValue(ds, acc) ==
  IF ds = <<>> THEN acc ELSE DigitsValue(Tail(ds), 10 * acc + DigitVal(Head(ds)))

\* parseFloat of a buffer that holds digits and points only.
ParseFloat(s) ==
  LET int  == DigitRun(s, 1)
      dot  == Len(int) + 1 <= Len(s) /\ s[Len(int) + 1] = "."
      frac == IF dot THEN DigitRun(s, Len(int) + 2) ELSE <<>>
  IN  IF int = <<>> /\ frac = <<>> THEN NaN
      ELSE Rat(DigitsValue(int, 0) * Pow10(Len(frac)) + DigitsValue(frac, 0),
               Pow10(Len(frac)))

RECURSIVE NatToChars(_)
NatToChars(k) ==
  IF k < 10 THEN <<Digits[k + 1]>>
  ELSE NatToChars(k \div 10) \o <<Digits[(k % 10) + 1]>>

\* The decimal digits of rem/d after the point; a fraction that does not
\* terminate within MaxFracDigits digits is cut there (JavaScript prints at
\* most 17 significant digits).
MaxFracDigits == 17

RECURSIVE FracChars(_, _, _)
FracChars(rem, d, k) ==
  IF rem = 0 \/ k = 0 THEN <<>>
  ELSE <<Digits[((10 * rem) \div d) + 1]>> \o FracChars((10 * rem) % d, d, k - 1)

\* Number.prototype.toString, as used by `num + unit`.
NumToChars(a) ==
  IF IsNaN(a) THEN <<"N", "a", "N">>
  ELSE IF a.d = 0
  THEN (IF a.n < 0 THEN <<"-">> ELSE <<>>) \o <<"I", "n", "f", "i", "n", "i", "t", "y">>
  ELSE LET m    == Abs(a.n)
           frac == FracChars(m % a.d, a.d, MaxFracDigits)
       IN  (IF a.n < 0 THEN <<"-">> ELSE <<>>)
           \o NatToChars(m \div a.d)
           \o (IF frac = <<>> THEN <<>> ELSE <<".">> \o frac)

RECURSIVE JoinWith(_, _)
JoinWith(strs, sep) ==
  IF strs = <<>> THEN <<>>
  ELSE IF Len(strs) = 1 THEN strs[1]
  ELSE strs[1] \o sep \o JoinWith(Tail(strs), sep)

-----------------------------------------------------------------------------
(* CSS value lexer *)

\* A token: a number (k = "num", value v) or a string (k = "str", text s).
NumTok(v) == [k |-> "num", s |-> <<>>, v |-> v]

StrTok(s) == [k |-> "str", s |-> s, v |-> R(0)]

getCharType(char) ==
  IF char = "." THEN "point"
  ELSE IF char = "%" THEN "percent"
  ELSE IF char = "#" THEN "hash"
  ELSE IF char = " " THEN "space"
  ELSE IF char = "(" \/ char = ")" THEN "bracket"
  ELSE IF IsDigit(char) THEN "digit"
  ELSE IF char \in Letters THEN "letter"
  ELSE "unknown"

BREAK_SYMBOLS == {"space", "bracket"}

getBufferType(type) ==
  IF type \in {"letter", "percent", "hash"} THEN "text"
  ELSE IF type \in {"digit", "point"} THEN "number"
  ELSE "null"

\* addToken: the buffer as a number when it is a number buffer, else as text.
addToken(tokens, buffer, bufferType) ==
  Append(tokens, IF bufferType = "number" THEN NumTok(ParseFloat(buffer))
                 ELSE StrTok(buffer))

\* One iteration of the lexer's loop for the character at position i. The
\* loop ends by returning the tokens: what is left in the buffer is dropped.
RECURSIVE LexLoop(_, _, _, _, _)
LexLoop(value, i, tokens, buffer, bufferType) ==
  IF i > Len(value) THEN tokens
  ELSE LET char          == value[i]
           charType      == getCharType(char)
           newBufferType == getBufferType(charType)
       IN  IF charType \in BREAK_SYMBOLS
           THEN LexLoop(value, i + 1, addToken(tokens, buffer, bufferType), <<>>, "null")
           ELSE IF newBufferType # "null"
           THEN IF newBufferType # bufferType /\ bufferType # "null"
                THEN LexLoop(value, i + 1, addToken(tokens, buffer, bufferType),
                             <<char>>, newBufferType)
                ELSE LexLoop(value, i + 1, tokens, Append(buffer, char), newBufferType)
           ELSE LexLoop(value, i + 1, tokens, buffer, bufferType)

cssValueLexer(value) == LexLoop(value, 1, <<>>, <<>>, "null")

-----------------------------------------------------------------------------
(* CSS value parser *)

SUPPORTED_FUNCS ==
  { <<"t", "r", "a", "n", "s", "l", "a", "t", "e">>,
    <<"r", "o", "t", "a", "t", "e">>,
    <<"s", "c", "a", "l", "e">>,
    <<"s", "k", "e", "w">>,
    <<"t", "r", "a", "n", "s", "l", "a", "t", "e", "X">>,
    <<"t", "r", "a", "n", "s", "l", "a", "t", "e", "Y">>,
    <<"t", "r", "a", "n", "s", "l", "a", "t", "e", "Z">>,
    <<"s", "c", "a", "l", "e", "X">>,
    <<"s", "c", "a", "l", "e", "Y">>,
    <<"s", "c", "a", "l", "e", "Z">>,
    <<"s", "k", "e", "w", "X">>,
    <<"s", "k", "e", "w", "Y">> }

\* The parsed values. A pair is [n, u]: n is the token taken as the number
\* (a string token can end up there, see isBufferNumOnly), u the unit text.
Null == [type |-> "null"]

StaticValue(s) == [type |-> "static", value |-> s]

ColorValue(s) == [type |-> "color", value |-> s]

NumericValue(pairs) == [type |-> "numeric", values |-> pairs]

\* values: the Map from function name to pairs, as entries [key, val].
TransformValue(entries) == [type |-> "transform", values |-> entries]

Pair(n, u) == [n |-> n, u |-> u]

MapHas(m, key) == \E i \in 1..Len(m) : m[i].key = key

MapGet(m, key) == m[CHOOSE i \in 1..Len(m) : m[i].key = key].val

\* Map.set: an existing key keeps its place, a new one goes last.
MapSet(m, key, val) ==
  IF MapHas(m, key)
  THEN [i \in 1..Len(m) |-> IF m[i].key = key THEN [key |-> key, val |-> val] ELSE m[i]]
  ELSE Append(m, [key |-> key, val |-> val])

MapKeys(m) == {m[i].key : i \in 1..Len(m)}

staticAndColorValuesHandler(tokens) ==
  IF Len(tokens) = 1 /\ tokens[1].k = "str"
  THEN LET token == tokens[1].s
       IN  IF Len(token) > 0 /\ token[1] = "#" THEN ColorValue(token)
           ELSE StaticValue(token)
  ELSE Null

\* !buffer.find((v) => typeof v === 'string'): find returns the first string
\* of the buffer, and the empty string is as falsy as no string at all.
isBufferNumOnly(buffer) ==
  LET strs == {i \in 1..Len(buffer) : buffer[i].k = "str"}
  IN  strs = {} \/ buffer[CHOOSE i \in strs : \A j \in strs : i <= j].s = <<>>

UnitlessPairs(buffer) == [i \in 1..Len(buffer) |-> Pair(buffer[i], <<>>)]

IsNumStr(buffer) ==
  Len(buffer) = 2 /\ buffer[1].k = "num" /\ buffer[2].k = "str"

\* The loop of numericValueHandler over the tokens from position i on.
RECURSIVE NumericLoop(_, _, _, _)
NumericLoop(tokens, i, values, buffer) ==
  IF i > Len(tokens) THEN [values |-> values, buffer |-> buffer]
  ELSE LET pushed == Append(buffer, tokens[i])
       IN  IF IsNumStr(pushed)
           THEN NumericLoop(tokens, i + 1,
                            Append(values, Pair(pushed[1], pushed[2].s)), <<>>)
           ELSE NumericLoop(tokens, i + 1, values, pushed)

NumericResult(r) ==
  IF r.buffer # <<>>
  THEN IF ~isBufferNumOnly(r.buffer) THEN Null
       ELSE NumericValue(r.values \o UnitlessPairs(r.buffer))
  ELSE NumericValue(r.values)

numericValueHandler(tokens) ==
  IF Len(tokens) > 0 /\ tokens[1].k = "num"
  THEN NumericResult(NumericLoop(tokens, 1, <<>>, <<>>))
  ELSE Null

\* The loop of transformValueHandler; st holds its local variables.
RECURSIVE TransformLoop(_, _, _)
TransformLoop(tokens, i, st) ==
  IF i > Len(tokens) THEN st
  ELSE LET token == tokens[i]
       IN  IF token.k = "str" /\ token.s \in SUPPORTED_FUNCS
           THEN IF st.paramPairs # <<>> \/ st.paramBuffer # <<>>
                THEN IF st.paramBuffer # <<>> /\ ~isBufferNumOnly(st.paramBuffer)
                     THEN [st EXCEPT !.isValid = FALSE]
                     ELSE TransformLoop(tokens, i + 1,
                            [values       |-> MapSet(st.values, st.functionName,
                                                st.paramPairs \o UnitlessPairs(st.paramBuffer)),
                             functionName |-> token.s,
                             paramPairs   |-> <<>>,
                             paramBuffer  |-> <<>>,
                             isValid      |-> TRUE])
                ELSE TransformLoop(tokens, i + 1, [st EXCEPT !.functionName = token.s])
           ELSE IF st.functionName # <<>>
           THEN LET pushed == Append(st.paramBuffer, token)
                IN  IF IsNumStr(pushed)
                    THEN TransformLoop(tokens, i + 1,
                           [st EXCEPT !.paramPairs = Append(@, Pair(pushed[1], pushed[2].s)),
                                      !.paramBuffer = <<>>])
                    ELSE TransformLoop(tokens, i + 1, [st EXCEPT !.paramBuffer = pushed])
           ELSE TransformLoop(tokens, i + 1, st)

\* The pairs of the last function, with what is left in the buffer.
LastPairs(st) ==
  IF st.paramBuffer # <<>> /\ isBufferNumOnly(st.paramBuffer)
  THEN st.paramPairs \o UnitlessPairs(st.paramBuffer)
  ELSE st.paramPairs

LastValues(st, pairs) ==
  IF st.functionName # <<>>
     /\ (st.paramPairs # <<>> \/ st.paramBuffer # <<>>)
     /\ pairs # <<>>
  THEN MapSet(st.values, st.functionName, pairs)
  ELSE st.values

TransformResult(isValid, vals) ==
  IF isValid /\ vals # <<>> THEN TransformValue(vals) ELSE Null

TransformState(st) == TransformResult(st.isValid, LastValues(st, LastPairs(st)))

transformValueHandler(tokens) ==
  IF Len(tokens) > 1 /\ tokens[1].k = "str"
  THEN TransformState(TransformLoop(tokens, 1,
         [values |-> <<>>, functionName |-> <<>>, paramPairs |-> <<>>,
          paramBuffer |-> <<>>, isValid |-> TRUE]))
  ELSE Null

FirstHandled(h1, h2, h3, value) ==
  IF h1 # Null THEN h1
  ELSE IF h2 # Null THEN h2
  ELSE IF h3 # Null THEN h3
  ELSE StaticValue(value)

HandleTokens(tokens, value) ==
  FirstHandled(staticAndColorValuesHandler(tokens), numericValueHandler(tokens),
               transformValueHandler(tokens), value)

cssValueParser(value) == HandleTokens(cssValueLexer(value), value)

-----------------------------------------------------------------------------
(* JavaScript coercions used by the arithmetic on pairs *)

Undefined == [k |-> "undefined", s |-> <<>>, v |-> R(0)]

\* Number(s) for a string: "" is 0, a decimal literal its value, else NaN.
SignedDecimal(neg, body, int, frac) ==
  IF Len(int) + (IF frac.dot THEN 1 + Len(frac.digits) ELSE 0) = Len(body)
     /\ (int # <<>> \/ frac.digits # <<>>)
  THEN (IF neg THEN RNeg(ParseFloat(body)) ELSE ParseFloat(body))
  ELSE NaN

FractionAfter(body, int) ==
  IF Len(int) + 1 <= Len(body) /\ body[Len(int) + 1] = "."
  THEN [dot |-> TRUE, digits |-> DigitRun(body, Len(int) + 2)]
  ELSE [dot |-> FALSE, digits |-> <<>>]

SignedNumber(neg, body) ==
  IF body = <<"I", "n", "f", "i", "n", "i", "t", "y">>
  THEN (IF neg THEN Rat(-1, 0) ELSE Rat(1, 0))
  ELSE SignedDecimal(neg, body, DigitRun(body, 1), FractionAfter(body, DigitRun(body, 1)))

StrToNumber(s) ==
  IF s = <<>> THEN R(0)
  ELSE SignedNumber(s[1] = "-", IF s[1] \in {"-", "+"} THEN Tail(s) ELSE s)

JsToNumber(x) ==
  IF x.k = "num" THEN x.v
  ELSE IF x.k = "str" THEN StrToNumber(x.s)
  ELSE NaN

JsToChars(x) ==
  IF x.k = "num" THEN NumToChars(x.v)
  ELSE IF x.k = "str" THEN x.s
  ELSE <<"u", "n", "d", "e", "f", "i", "n", "e", "d">>

\* x + num: an addition of numbers, a concatenation when x is a string.
JsPlusNum(x, num) ==
  IF x.k = "num" THEN NumTok(RAdd(x.v, num))
  ELSE StrTok(JsToChars(x) \o NumToChars(num))

-----------------------------------------------------------------------------
(* Stringifier *)

PairToChars(pair) == JsToChars(pair.n) \o pair.u

\* stringifyParsedValue: the case label of the transform branch is 'tranform',
\* which no parsed value carries, so a transform value leaves the switch and
\* the function returns undefined.
stringifyParsedValue(value) ==
  IF value.type = "numeric"
  THEN StrTok(JoinWith([i \in 1..Len(value.values) |-> PairToChars(value.values[i])],
                       <<" ">>))
  ELSE IF value.type \in {"color", "static"}
  THEN StrTok(value.value)
  ELSE Undefined

-----------------------------------------------------------------------------
(* Interpolation *)

TypeError == [type |-> "TypeError"]

calculateValueDelta(currValue, targetValue, changeRate) ==
  RMul(RSub(JsToNumber(targetValue), JsToNumber(currValue)), changeRate)

\* A variant of NextPairs that prefers the unit of the current pair.
NextPairsCurrentUnit(currPairs, targetPairs, changeRate) ==
  IF Len(currPairs) < Len(targetPairs) THEN [ok |-> FALSE, pairs |-> <<>>]
  ELSE [ok    |-> TRUE,
        pairs |-> [i \in 1..Len(targetPairs) |->
                     Pair(JsPlusNum(currPairs[i].n,
                                    calculateValueDelta(currPairs[i].n, targetPairs[i].n,
                                                        changeRate)),
                          IF currPairs[i].u # <<>> THEN currPairs[i].u
                          ELSE targetPairs[i].u)]]

\* The pairs of the result for the target pairs, read against the current
\* pairs; ok is FALSE when a current pair is missing (a read of an index of
\* undefined, which throws).
NextPairs(currPairs, targetPairs, changeRate) ==
  IF Len(currPairs) < Len(targetPairs) THEN [ok |-> FALSE, pairs |-> <<>>]
  ELSE [ok    |-> TRUE,
        pairs |-> [i \in 1..Len(targetPairs) |->
                     LET curr     == currPairs[i]
                         target   == targetPairs[i]
                         numDelta == calculateValueDelta(curr.n, target.n, changeRate)
                         unit     == IF target.u # <<>> THEN target.u ELSE curr.u
                     IN  Pair(JsPlusNum(curr.n, numDelta), unit)]]

NextNumericValue(r) == IF r.ok THEN NumericValue(r.pairs) ELSE TypeError

calculateNextNumericValue(currValue, targetValue, changeRate) ==
  IF currValue.type # "numeric" THEN TypeError
  ELSE NextNumericValue(NextPairs(currValue.values, targetValue.values, changeRate))

\* The loop of calculateNextTransformValue over the target's functions.
RECURSIVE NextTransformLoop(_, _, _, _, _)
NextTransformLoop(currValues, targetValues, changeRate, i, acc) ==
  IF i > Len(targetValues) THEN TransformValue(acc)
  ELSE LET func == targetValues[i].key
       IN  IF ~MapHas(currValues, func) THEN TypeError
           ELSE LET r == NextPairs(MapGet(currValues, func), targetValues[i].val,
                                   changeRate)
                IN  IF ~r.ok THEN TypeError
                    ELSE NextTransformLoop(currValues, targetValues, changeRate, i + 1,
                                           MapSet(acc, func, r.pairs))

calculateNextTransformValue(currValue, targetValue, changeRate) ==
  IF currValue.type # "transform" THEN TypeError
  ELSE NextTransformLoop(currValue.values, targetValue.values, changeRate, 1, <<>>)

\* Hexadecimal helpers of the color interpolation.
HexDigits ==
  <<"0", "1", "2", "3", "4", "5", "6", "7", "8", "9", "a", "b", "c", "d", "e", "f">>

HexUpper == <<"A", "B", "C", "D", "E", "F">>

IsHex(c) == (\E i \in 1..16 : HexDigits[i] = c) \/ (\E i \in 1..6 : HexUpper[i] = c)

HexVal(c) ==
  IF \E i \in 1..16 : HexDigits[i] = c
  THEN (CHOOSE i \in 1..16 : HexDigits[i] = c) - 1
  ELSE (CHOOSE i \in 1..6 : HexUpper[i] = c) + 9

\* parseInt(s, 16): the value of the longest prefix of hex digits, NaN if none.
RECURSIVE ParseHexFrom(_, _, _)
ParseHexFrom(s, i, acc) ==
  IF i <= Len(s) /\ IsHex(s[i]) THEN ParseHexFrom(s, i + 1, 16 * acc + HexVal(s[i]))
  ELSE acc

ParseInt16(s) ==
  IF Len(s) > 0 /\ IsHex(s[1]) THEN R(ParseHexFrom(s, 1, 0)) ELSE NaN

RECURSIVE NatToHex(_)
NatToHex(k) ==
  IF k < 16 THEN <<HexDigits[k + 1]>>
  ELSE NatToHex(k \div 16) \o <<HexDigits[(k % 16) + 1]>>

\* A variant of ChannelToHex without the padding to two digits.
ChannelToHexUnpadded(a) ==
  IF a.d = 0 THEN NumToChars(a)
  ELSE (IF a.n < 0 THEN <<"-">> ELSE <<>>) \o NatToHex(Abs(a.n))

\* Number.prototype.toString(16) of a rounded channel, padStart(2, '0').
ChannelToHex(a) ==
  LET digits == IF a.d = 0 THEN NumToChars(a)
                ELSE (IF a.n < 0 THEN <<"-">> ELSE <<>>) \o NatToHex(Abs(a.n))
  IN  IF Len(digits) < 2 THEN <<"0">> \o digits ELSE digits

\* currValue.value[i] appended to a string: the character, or "undefined"
\* past the end of the current color.
CharOrUndefined(s, i) ==
  IF i <= Len(s) THEN <<s[i]>> ELSE <<"u", "n", "d", "e", "f", "i", "n", "e", "d">>

\* The channel loop of calculateNextColorValue over the target's characters.
RECURSIVE NextColorLoop(_, _, _, _, _, _, _)
NextColorLoop(curr, target, changeRate, i, currHex, targetHex, nextHex) ==
  IF i > Len(target) THEN nextHex
  ELSE LET c == currHex \o CharOrUndefined(curr, i)
           g == Append(targetHex, target[i])
       IN  IF Len(g) = 2
           THEN LET currRgb == ParseInt16(c)
                    delta   == RMul(RSub(ParseInt16(g), currRgb), changeRate)
                    nextRgb == RRound(RAdd(currRgb, delta))
                IN  NextColorLoop(curr, target, changeRate, i + 1, <<>>, <<>>,
                                  nextHex \o ChannelToHex(nextRgb))
           ELSE NextColorLoop(curr, target, changeRate, i + 1, c, g, nextHex)

HEX_COLOR_LENGTH == 7

\* The color values the parser produces hold the hex text, so the engine's
\* color branch is the one that blends hex text.
calculateNextColorValue(currValue, targetValue, changeRate) ==
  IF Len(targetValue.value) # HEX_COLOR_LENGTH THEN targetValue
  ELSE IF currValue.type \notin {"color", "static"} THEN TypeError
  ELSE ColorValue(NextColorLoop(currValue.value, targetValue.value, changeRate,
                                2, <<>>, <<>>, <<"#">>))

copyParsedValue(value) == value

calculateNextCssValue(currValue, targetValue, changeRate) ==
  IF targetValue.type = "numeric"
  THEN calculateNextNumericValue(currValue, targetValue, changeRate)
  ELSE IF targetValue.type = "transform"
  THEN calculateNextTransformValue(currValue, targetValue, changeRate)
  ELSE IF targetValue.type = "color"
  THEN calculateNextColorValue(currValue, targetValue, changeRate)
  ELSE copyParsedValue(targetValue)


-----------------------------------------------------------------------------
(* Styles *)

TRANSFORM == "transform"

\* {...a, ...b}
Spread(a, b) == [k \in DOMAIN a \cup DOMAIN b |-> IF k \in DOMAIN b THEN b[k] ELSE a[k]]

\* new Map([...a, ...b])
RECURSIVE MapUnion(_, _)
MapUnion(a, b) ==
  IF b = <<>> THEN a ELSE MapUnion(MapSet(a, b[1].key, b[1].val), Tail(b))

\* What `[...value.values]` spreads for a value read as a transform value:
\* the Map's entries; for a numeric value its pairs, none of which is keyed by
\* a function name, so no entry a later lookup by function name can find.
SpreadValues(value) == IF value.type = "transform" THEN value.values ELSE <<>>

\* A static or color value has no `values`: spreading undefined throws.
stylesUnionThrows(base, newStyles) ==
  /\ TRANSFORM \in DOMAIN base
  /\ TRANSFORM \in DOMAIN newStyles
  /\ \/ base[TRANSFORM].type \notin {"transform", "numeric"}
     \/ newStyles[TRANSFORM].type \notin {"transform", "numeric"}

stylesUnion(base, newStyles) ==
  LET union == Spread(base, newStyles)
  IN  IF TRANSFORM \in DOMAIN base /\ TRANSFORM \in DOMAIN newStyles
      THEN [union EXCEPT ![TRANSFORM] =
              TransformValue(MapUnion(SpreadValues(base[TRANSFORM]),
                                      SpreadValues(newStyles[TRANSFORM])))]
      ELSE union

\* An arbitrary but fixed enumeration of a finite set.
RECURSIVE SetToSeq(_)
SetToSeq(S) ==
  IF S = {} THEN <<>>
  ELSE LET x == CHOOSE y \in S : TRUE IN <<x>> \o SetToSeq(S \ {x})

-----------------------------------------------------------------------------
(* The host: layers, their elements, and the style adapter *)

\* A selector `LAYER_ID >> OBJECT_SELECTOR` after the split at the separator
\* and the trims; obj is "" when the selector names the layer alone.
Sel(id, obj) == [id |-> id, obj |-> obj]

LayerKey(id) == Sel(id, "")

NoSelector == Sel("", "")

\* The layers handed to the constructor and the elements found below them.
LayerIds == {"layer-1", "meteor-field"}

LayerElement(id) == IF id = "layer-1" THEN "layer1El" ELSE "fieldEl"

getElementsByClassName(layerId, obj) ==
  IF layerId = "layer-1" /\ obj = ".circle" THEN <<"circle">>
  ELSE IF layerId = "meteor-field" /\ obj = ".meteor" THEN <<"meteor1", "meteor2">>
  ELSE <<>>

Elements == {"layer1El", "fieldEl", "circle", "meteor1", "meteor2"}

Props == {"opacity", "width", "display", TRANSFORM}

\* A registry value: one element, or an array of elements.
OneElement(e) == [isArray |-> FALSE, els |-> <<e>>]

ElementArray(es) == [isArray |-> TRUE, els |-> es]

NoStyle == StrTok(<<>>)

\* The style adapter keeps, per element and property, the value last set.
RendererSetStyle(dom, el, property, value) == [dom EXCEPT ![el][property] = value]

RendererRemoveStyle(dom, el, property) == [dom EXCEPT ![el][property] = NoStyle]

-----------------------------------------------------------------------------
(* The engine: errors *)

Err(code, selector, prop, layerId) ==
  [code |-> code, selector |-> selector, prop |-> prop, layerId |-> layerId]

NoError == Err("none", NoSelector, "", "")

ThrownTypeError == Err("TypeError", NoSelector, "", "")

Ok(w) == w.threw = NoError

Throw(w, e) == [w EXCEPT !.threw = e]

-----------------------------------------------------------------------------
(* The engine: rules *)

MS == 1000

DEFAULT_TIMESTEP == 100

NULL == 0

NoStyles == <<>>

\* Author rules. An instant rule has no timespan, a range rule no `at`.
RangeRule(selector, start, end, from, to) ==
  [selector |-> selector, isRange |-> TRUE, timespan |-> <<start, end>>, at |-> 0,
   from |-> from, to |-> to, styles |-> NoStyles]

InstantRule(selector, at, styles) ==
  [selector |-> selector, isRange |-> FALSE, timespan |-> <<>>, at |-> at,
   from |-> NoStyles, to |-> NoStyles, styles |-> styles]

getStartTime(r) == IF r.isRange THEN r.timespan[1] ELSE r.at

getEndTime(r) == IF r.isRange THEN r.timespan[2] ELSE r.at

getEndStyles(r) == IF r.isRange THEN r.to ELSE r.styles

ParseStyles(styles) == [prop \in DOMAIN styles |-> cssValueParser(styles[prop])]

\* The rule with its styles parsed and its times in milliseconds.
ParseRule(rule) ==
  IF rule.isRange
  THEN [rule EXCEPT !.from = ParseStyles(rule.from),
                    !.to = ParseStyles(rule.to),
                    !.timespan = <<rule.timespan[1] * MS, rule.timespan[2] * MS>>]
  ELSE [rule EXCEPT !.styles = ParseStyles(rule.styles),
                    !.at = rule.at * MS]

\* Array.prototype.sort with (a, b) => getStartTime(a) - getStartTime(b):
\* stable, ascending by start time.
RECURSIVE InsertByStart(_, _)
InsertByStart(sorted, r) ==
  IF sorted = <<>> THEN <<r>>
  ELSE IF getStartTime(sorted[Len(sorted)]) <= getStartTime(r) THEN Append(sorted, r)
  ELSE Append(InsertByStart(SubSeq(sorted, 1, Len(sorted) - 1), r), sorted[Len(sorted)])

RECURSIVE SortByStart(_)
SortByStart(rs) ==
  IF rs = <<>> THEN <<>>
  ELSE InsertByStart(SortByStart(SubSeq(rs, 1, Len(rs) - 1)), rs[Len(rs)])

\* A variant of MaxEndTime: the end time of the rule that starts last.
LastEndTime(rs) == getEndTime(rs[Len(rs)])

\* Math.max over the end times of the parsed rules.
RECURSIVE MaxEndTime(_)
MaxEndTime(rs) ==
  IF Len(rs) = 1 THEN getEndTime(rs[1])
  ELSE LET m == MaxEndTime(Tail(rs))
       IN  IF getEndTime(rs[1]) >= m THEN getEndTime(rs[1]) ELSE m

\* A variant of _validateRules without the comparison of the style counts.
ValidateWithoutCount(rule) ==
  IF ~rule.isRange THEN NoError
  ELSE LET duration == rule.timespan[2] - rule.timespan[1]
           missing  == {prop \in DOMAIN rule.to :
                          prop \notin DOMAIN rule.from \/ rule.from[prop] = <<>>}
       IN  IF duration < 0 THEN Err("IncorrectTimespan", rule.selector, "", "")
           ELSE IF duration = 0 THEN Err("ZeroDuration", rule.selector, "", "")
           ELSE IF missing # {}
           THEN Err("MissingFromStyle", rule.selector, CHOOSE prop \in missing : TRUE, "")
           ELSE NoError

\* A variant of _validateRules that rejects only a negative duration.
ValidateNegativeOnly(rule) ==
  IF ~rule.isRange THEN NoError
  ELSE LET duration == rule.timespan[2] - rule.timespan[1]
           missing  == {prop \in DOMAIN rule.to :
                          prop \notin DOMAIN rule.from \/ rule.from[prop] = <<>>}
       IN  IF duration < 0 THEN Err("IncorrectTimespan", rule.selector, "", "")
           ELSE IF Cardinality(DOMAIN rule.from) # Cardinality(DOMAIN rule.to)
           THEN Err("StylesCountMismatch", rule.selector, "", "")
           ELSE IF missing # {}
           THEN Err("MissingFromStyle", rule.selector, CHOOSE prop \in missing : TRUE, "")
           ELSE NoError

\* _validateRules: the error it throws, NoError when it returns.
_validateRules(rule) ==
  IF ~rule.isRange THEN NoError
  ELSE LET duration == rule.timespan[2] - rule.timespan[1]
           missing  == {prop \in DOMAIN rule.to :
                          prop \notin DOMAIN rule.from \/ rule.from[prop] = <<>>}
       IN  IF duration < 0 THEN Err("IncorrectTimespan", rule.selector, "", "")
           ELSE IF duration = 0 THEN Err("ZeroDuration", rule.selector, "", "")
           ELSE IF Cardinality(DOMAIN rule.from) # Cardinality(DOMAIN rule.to)
           THEN Err("StylesCountMismatch", rule.selector, "", "")
           ELSE IF missing # {}
           THEN Err("MissingFromStyle", rule.selector, CHOOSE prop \in missing : TRUE, "")
           ELSE NoError

\* A variant of _extractObjects that registers an empty match instead of
\* throwing.
ExtractWithoutMatchCheck(w, rule) ==
  LET layerId        == rule.selector.id
      objectSelector == rule.selector.obj
  IN  IF LayerKey(layerId) \notin DOMAIN w.allObjects
      THEN Throw(w, Err("MissingLayerId", NoSelector, "", layerId))
      ELSE IF objectSelector # "" /\ rule.selector \notin DOMAIN w.allObjects
      THEN LET objects == getElementsByClassName(layerId, objectSelector)
           IN  [w EXCEPT !.allObjects =
                  (rule.selector :> (IF Len(objects) = 1 THEN OneElement(objects[1])
                                     ELSE ElementArray(objects))) @@ @]
      ELSE w

\* _extractObjects on the world w: throws, or registers the rule's objects.
_extractObjects(w, rule) ==
  LET layerId        == rule.selector.id
      objectSelector == rule.selector.obj
  IN  IF LayerKey(layerId) \notin DOMAIN w.allObjects
      THEN Throw(w, Err("MissingLayerId", NoSelector, "", layerId))
      ELSE IF objectSelector # "" /\ rule.selector \notin DOMAIN w.allObjects
      THEN LET objects == getElementsByClassName(layerId, objectSelector)
           IN  IF Len(objects) = 0
               THEN Throw(w, Err("MissingLayerObjects", rule.selector, "", ""))
               ELSE [w EXCEPT !.allObjects =
                       (rule.selector :> (IF Len(objects) = 1 THEN OneElement(objects[1])
                                          ELSE ElementArray(objects))) @@ @]
      ELSE w

\* _extractObjectsAndValidateRules: rule by rule, validation then extraction.
RECURSIVE _extractObjectsAndValidateRules(_, _, _)
_extractObjectsAndValidateRules(w, definition, i) ==
  IF i > Len(definition) \/ ~Ok(w) THEN w
  ELSE LET e == _validateRules(definition[i])
       IN  IF e # NoError THEN Throw(w, e)
           ELSE _extractObjectsAndValidateRules(_extractObjects(w, definition[i]),
                                               definition, i + 1)

\* define(definition)
\* The end of define: the rules are sorted and parsed, the duration is set.
Install(w, parsed) == [w EXCEPT !.rules = parsed, !.duration = MaxEndTime(parsed)]

SortAndParse(definition) ==
  [i \in 1..Len(definition) |-> ParseRule(SortByStart(definition)[i])]

Validated(w, definition) ==
  IF ~Ok(w) THEN w ELSE Install(w, SortAndParse(definition))

define(w0, definition) ==
  Validated(_extractObjectsAndValidateRules([w0 EXCEPT !.threw = NoError], definition, 1),
            definition)

-----------------------------------------------------------------------------
(* The engine: rendering a frame *)

UndefinedValue == [type |-> "undefined"]

RECURSIVE RendererSetAll(_, _, _, _)
RendererSetAll(dom, els, property, value) ==
  IF els = <<>> THEN dom
  ELSE RendererSetAll(RendererSetStyle(dom, els[1], property, value), Tail(els),
                      property, value)

RECURSIVE RendererRemoveAll(_, _, _)
RendererRemoveAll(dom, els, property) ==
  IF els = <<>> THEN dom
  ELSE RendererRemoveAll(RendererRemoveStyle(dom, els[1], property), Tail(els), property)

\* The cached styles of a selector, {} when it has none.
CachedStyles(activeStyles, selector) ==
  IF MapHas(activeStyles, selector) THEN MapGet(activeStyles, selector) ELSE NoStyles

Without(styles, property) == [p \in DOMAIN styles \ {property} |-> styles[p]]

\* _setStyle(selector, property, value)
_setStyle(w, selector, property, value) ==
  IF selector \notin DOMAIN w.allObjects THEN Throw(w, ThrownTypeError)
  ELSE LET elements    == w.allObjects[selector]
           valueString == stringifyParsedValue(value)
       IN  [w EXCEPT !.dom = RendererSetAll(@, elements.els, property, valueString),
                     !.activeStyles =
                        MapSet(@, selector,
                               Spread(CachedStyles(@, selector), property :> value))]

\* _removeStyle(selector, property)
_removeStyle(w, selector, property) ==
  IF selector \notin DOMAIN w.allObjects THEN Throw(w, ThrownTypeError)
  ELSE LET elements == w.allObjects[selector]
       IN  [w EXCEPT !.dom = RendererRemoveAll(@, elements.els, property),
                     !.activeStyles =
                        IF MapHas(@, selector)
                        THEN MapSet(@, selector, Without(MapGet(@, selector), property))
                        ELSE @]

\* The first loop of _updateFrame: the end styles of the completed rules.
RECURSIVE CompletedStyles(_, _, _, _)
CompletedStyles(rules, time, i, stylesState) ==
  IF i > Len(rules) THEN stylesState
  ELSE IF time > getEndTime(rules[i])
  THEN CompletedStyles(rules, time, i + 1,
         MapSet(stylesState, rules[i].selector,
                Spread(CachedStyles(stylesState, rules[i].selector),
                       getEndStyles(rules[i]))))
  ELSE CompletedStyles(rules, time, i + 1, stylesState)

\* The change rate of one rule in progress, and the styles it moves towards.
RuleChange(rule, currentTime, time) ==
  IF time - currentTime > 0
  THEN LET relativeTime == IF currentTime >= rule.timespan[1] THEN currentTime
                           ELSE rule.timespan[1]
       IN  [changeRate   |-> RAbs(RDiv(R(time - relativeTime),
                                       R(getEndTime(rule) - relativeTime))),
            targetStyles |-> rule.to]
  ELSE LET relativeTime == IF currentTime <= rule.timespan[2] THEN currentTime
                           ELSE rule.timespan[2]
       IN  [changeRate   |-> RAbs(RDiv(R(time - relativeTime),
                                       R(relativeTime - getStartTime(rule)))),
            targetStyles |-> rule.from]

\* The styles of one rule in progress, written over `styles`; ok is FALSE when
\* the interpolation throws.
RECURSIVE NextStyles(_, _, _, _, _)
\* One property of NextStyles, `next` being its interpolated value.
NextStyle(props, targetStyles, activeStyles, changeRate, styles, next) ==
  IF next = TypeError THEN [ok |-> FALSE, styles |-> styles]
  ELSE NextStyles(Tail(props), targetStyles, activeStyles, changeRate,
                  Spread(styles, props[1] :> next))

NextStyles(props, targetStyles, activeStyles, changeRate, styles) ==
  IF props = <<>> THEN [ok |-> TRUE, styles |-> styles]
  ELSE NextStyle(props, targetStyles, activeStyles, changeRate, styles,
                 calculateNextCssValue(IF props[1] \in DOMAIN activeStyles
                                       THEN activeStyles[props[1]]
                                       ELSE UndefinedValue,
                                       targetStyles[props[1]], changeRate))

\* The second loop of _updateFrame: the rules in progress.
RECURSIVE InProgressStyles(_, _, _, _)
\* start < end && start <= time && time <= end
InProgress(rule, time) ==
  /\ getStartTime(rule) < getEndTime(rule)
  /\ getStartTime(rule) <= time
  /\ time <= getEndTime(rule)

\* The styles of the rule in progress after `change`, written over `styles`.
RuleStyles(rule, change, cached, styles) ==
  NextStyles(SetToSeq(DOMAIN change.targetStyles), change.targetStyles,
             stylesUnion(rule.from, cached), change.changeRate, styles)

\* One rule in progress of InProgressStyles, `r` being its styles.
InProgressRule(w, time, i, stylesState, r) ==
  IF ~r.ok THEN [ok |-> FALSE, state |-> stylesState]
  ELSE InProgressStyles(w, time, i + 1, MapSet(stylesState, w.rules[i].selector, r.styles))

InProgressStyles(w, time, i, stylesState) ==
  IF i > Len(w.rules) THEN [ok |-> TRUE, state |-> stylesState]
  ELSE IF ~InProgress(w.rules[i], time)
  THEN InProgressStyles(w, time, i + 1, stylesState)
  ELSE IF stylesUnionThrows(w.rules[i].from,
                            CachedStyles(w.activeStyles, w.rules[i].selector))
  THEN [ok |-> FALSE, state |-> stylesState]
  ELSE InProgressRule(w, time, i, stylesState,
         RuleStyles(w.rules[i], RuleChange(w.rules[i], w.currentTime, time),
                    CachedStyles(w.activeStyles, w.rules[i].selector),
                    CachedStyles(stylesState, w.rules[i].selector)))

\* The (selector, property) pairs of a Map of styles, in the Map's order.
RECURSIVE StylePairs(_)
StylePairs(m) ==
  IF m = <<>> THEN <<>>
  ELSE [i \in 1..Cardinality(DOMAIN m[1].val) |->
          [selector |-> m[1].key, prop |-> SetToSeq(DOMAIN m[1].val)[i]]]
       \o StylePairs(Tail(m))

\* A variant of RemoveStale: the third loop left out.
KeepStale(w, pairs, stylesState) == w

\* The third loop of _updateFrame: active styles absent from the new state.
RECURSIVE RemoveStale(_, _, _)
RemoveStale(w, pairs, stylesState) ==
  IF pairs = <<>> \/ ~Ok(w) THEN w
  ELSE LET selector == pairs[1].selector
           prop     == pairs[1].prop
       IN  IF ~MapHas(stylesState, selector)
              \/ prop \notin DOMAIN MapGet(stylesState, selector)
           THEN RemoveStale(_removeStyle(w, selector, prop), Tail(pairs), stylesState)
           ELSE RemoveStale(w, Tail(pairs), stylesState)

\* The fourth loop of _updateFrame: the new state is applied.
RECURSIVE ApplyStyles(_, _, _)
ApplyStyles(w, pairs, stylesState) ==
  IF pairs = <<>> \/ ~Ok(w) THEN w
  ELSE ApplyStyles(_setStyle(w, pairs[1].selector, pairs[1].prop,
                             MapGet(stylesState, pairs[1].selector)[pairs[1].prop]),
                   Tail(pairs), stylesState)

\* _updateFrame(time)
\* The end of _updateFrame: the time and the progress are recorded.
FinishFrame(w, time, duration) ==
  IF ~Ok(w) THEN w
  ELSE [w EXCEPT !.currentTime = time, !.progress = RDiv(R(time), R(duration))]

\* The third and fourth loops of _updateFrame over the new state.
ApplyFrame(w, time, stylesState) ==
  FinishFrame(ApplyStyles(RemoveStale(w, StylePairs(w.activeStyles), stylesState),
                          StylePairs(stylesState), stylesState),
              time, w.duration)

RenderFrame(w, time, r) ==
  IF ~r.ok THEN Throw(w, ThrownTypeError) ELSE ApplyFrame(w, time, r.state)

_updateFrame(w, time) ==
  RenderFrame(w, time,
              InProgressStyles(w, time, 1, CompletedStyles(w.rules, time, 1, <<>>)))

-----------------------------------------------------------------------------
(* The engine: controls *)

\* An optional timestep argument.
NoTimestep == [given |-> FALSE, ms |-> 0]

Timestep(ms) == [given |-> TRUE, ms |-> ms]

\* cancelAnimationFrame(id)
cancelAnimationFrame(frames, id) == {f \in frames : f.id # id}

\* requestAnimationFrame: the handle of the new request.
NewFrameId(frames) == CHOOSE id \in 1..(Cardinality(frames) + 1) :
                        \A f \in frames : f.id # id

\* A variant of pause that clears the flag and the handle but leaves the
\* requested frame with the browser.
PauseWithoutCancel(w) ==
  IF w.animationFrameId # NULL
  THEN [w EXCEPT !.animationFrameId = NULL, !.isPlaying = FALSE]
  ELSE w

\* pause()
pause(w) ==
  IF w.animationFrameId # NULL
  THEN [w EXCEPT !.frames = cancelAnimationFrame(@, w.animationFrameId),
                 !.animationFrameId = NULL,
                 !.isPlaying = FALSE]
  ELSE w

\* The loop of reset over the cached entries. The adapter is handed whatever
\* the registry holds for the selector; handed an array of elements instead of
\* an element, a strict adapter throws and a lenient one does nothing.
RECURSIVE ResetLoop(_, _)
ResetLoop(w, entries) ==
  IF entries = <<>> \/ ~Ok(w) THEN w
  ELSE LET selector == entries[1].key
           styles   == entries[1].val
           element  == IF selector \in DOMAIN w.allObjects THEN w.allObjects[selector]
                       ELSE ElementArray(<<>>)
           deleted  == SelectSeq(w.activeStyles, LAMBDA e : e.key # selector)
       IN  IF DOMAIN styles = {}
           THEN ResetLoop([w EXCEPT !.activeStyles = deleted], Tail(entries))
           ELSE IF element.isArray
           THEN IF w.rendererStrict THEN Throw(w, ThrownTypeError)
                ELSE ResetLoop([w EXCEPT !.activeStyles = deleted], Tail(entries))
           ELSE ResetLoop([w EXCEPT
                             !.dom = [@ EXCEPT ![element.els[1]] =
                                        [p \in Props |-> IF p \in DOMAIN styles THEN NoStyle
                                                         ELSE @[p]]],
                             !.activeStyles = deleted],
                          Tail(entries))

\* reset()
ResetPaused(w) ==
  ResetLoop([w EXCEPT !.currentTime = 0, !.progress = R(0)], w.activeStyles)

reset(w) == ResetPaused(pause(w))

\* stop()
stop(w) == reset(w)

\* _animate(then, elapsed): `since` is Date.now() - then at the call.
\* The frame request of _animate, `then` being carried to the next call.
RequestFrame(w, id, then) ==
  [w EXCEPT !.animationFrameId = id, !.frames = @ \cup {[id |-> id, since |-> then]}]

\* A variant of AnimateStep that pauses beyond the duration without marking
\* the animation completed.
AnimateStepUnmarked(w, time) ==
  IF time <= w.duration THEN _updateFrame(w, time)
  ELSE pause(w)

\* The body of _animate once a timestep has passed.
AnimateStep(w, time) ==
  IF time <= w.duration THEN _updateFrame(w, time)
  ELSE [pause(w) EXCEPT !.completed = TRUE]

_animate(w, since) ==
  IF since >= DEFAULT_TIMESTEP
  THEN AnimateStep(RequestFrame(w, NewFrameId(w.frames), since % DEFAULT_TIMESTEP),
                   w.currentTime + since)
  ELSE RequestFrame(w, NewFrameId(w.frames), since)

\* play()
\* The end of play, after the reset of a completed animation.
Start(w) ==
  IF ~Ok(w) THEN w
  ELSE _animate([w EXCEPT !.completed = FALSE, !.isPlaying = TRUE], 0)

\* A variant of play without the guard on a loop that is already running.
PlayUnguarded(w) ==
  IF Len(w.rules) = 0 THEN w
  ELSE IF w.completed THEN Start(reset(w))
  ELSE Start(w)

play(w) ==
  IF w.animationFrameId # NULL THEN w
  ELSE IF Len(w.rules) = 0 THEN w
  ELSE IF w.completed THEN Start(reset(w))
  ELSE Start(w)

\* A variant of Clamp01 that leaves the progress as given.
Unclamped(progress) == progress

\* Math.max(0, Math.min(progress, 1))
Clamp01(progress) == RMax(R(0), RMin(progress, R(1)))

\* seek(progress)
\* The end of seek and back: the completed flag, unless the frame threw.
SetCompleted(w, completed) ==
  IF ~Ok(w) THEN w ELSE [w EXCEPT !.completed = completed]

SeekPaused(w, clamped) ==
  IF Len(w.rules) = 0 THEN w
  ELSE SetCompleted(_updateFrame(w, RRound(RMul(clamped, R(w.duration))).n),
                    clamped = R(1))

seek(w0, progress) == SeekPaused(pause(w0), Clamp01(progress))

\* A variant of forward without the guard on an empty rule list.
\* timestep ?? DEFAULT_TIMESTEP
TimestepOrDefault(timestep) == IF timestep.given THEN timestep.ms ELSE DEFAULT_TIMESTEP

\* A variant of ForwardTo that renders the last frame when the time lies
\* beyond the duration.
ForwardClamped(w, time) ==
  IF time <= w.duration THEN _updateFrame(w, time)
  ELSE [_updateFrame(w, w.duration) EXCEPT !.completed = TRUE]

ForwardTo(w, time) ==
  IF time <= w.duration THEN _updateFrame(w, time)
  ELSE [w EXCEPT !.completed = TRUE]

ForwardPaused(w, timestep) ==
  IF Len(w.rules) = 0 THEN w
  ELSE ForwardTo(w, w.currentTime + TimestepOrDefault(timestep))

\* A variant of forward without the guard on an empty rule list.
ForwardPausedUnguarded(w, timestep) ==
  ForwardTo(w, w.currentTime + TimestepOrDefault(timestep))

ForwardUnguarded(w0, timestep) == ForwardPausedUnguarded(pause(w0), timestep)

\* forward(timestep)
forward(w0, timestep) == ForwardPaused(pause(w0), timestep)

\* A variant of BackTo without the guard on a negative time.
BackUnguarded(w, time) == SetCompleted(_updateFrame(w, time), FALSE)

\* back(timestep)
BackTo(w, time) ==
  IF time >= 0 THEN SetCompleted(_updateFrame(w, time), FALSE) ELSE w

BackPaused(w, timestep) ==
  IF Len(w.rules) = 0 THEN w
  ELSE BackTo(w, w.currentTime - TimestepOrDefault(timestep))

back(w0, timestep) == BackPaused(pause(w0), timestep)

\* addPlugin(plugin)
addPlugin(w, plugin) ==
  [w EXCEPT !.inits = [@ EXCEPT ![plugin] = @ + 1],
            !.plugins = Append(@, plugin)]

RECURSIVE DestroyAll(_, _)
DestroyAll(destroys, plugins) ==
  IF plugins = <<>> THEN destroys
  ELSE DestroyAll([destroys EXCEPT ![plugins[1]] = @ + 1], Tail(plugins))

\* dispose()
\* The end of dispose, after the reset.
Clear(w) ==
  IF ~Ok(w) THEN w
  ELSE [w EXCEPT !.rules = <<>>, !.duration = 0, !.plugins = <<>>]

dispose(w) == Clear(reset([w EXCEPT !.destroys = DestroyAll(@, w.plugins)]))

-----------------------------------------------------------------------------
(* Inputs: the style texts, selectors and definitions the operations draw from *)

RAW_0 == <<"0">>

RAW_1 == <<"1">>

RAW_0px == <<"0", "p", "x">>

RAW_100px == <<"1", "0", "0", "p", "x">>

RAW_50px == <<"5", "0", "p", "x">>

RAW_block == <<"b", "l", "o", "c", "k">>

RAW_tx0 == <<"t", "r", "a", "n", "s", "l", "a", "t", "e", "X", "(", "0", ")">>

RAW_tx100 == <<"t", "r", "a", "n", "s", "l", "a", "t", "e", "X", "(", "1", "0", "0", "%", ")">>

RAW_empty == <<>>

CIRCLE == Sel("layer-1", ".circle")

METEOR == Sel("meteor-field", ".meteor")

LAYER1 == LayerKey("layer-1")

TRIANGLE == Sel("layer-1", ".triangle")

UNKNOWN == Sel("layer-3", ".circle")

Opacity(v) == "opacity" :> v

Width(v) == "width" :> v

Transform(v) == TRANSFORM :> v

Display(v) == "display" :> v

FadeIn(selector, start, end) ==
  RangeRule(selector, start, end, Opacity(RAW_0), Opacity(RAW_1))

Grow(selector, start, end) ==
  RangeRule(selector, start, end, Width(RAW_0px), Width(RAW_100px))

Shrink(selector, start, end) ==
  RangeRule(selector, start, end, Width(RAW_50px), Width(RAW_0px))

Slide(selector, start, end) ==
  RangeRule(selector, start, end, Transform(RAW_tx0), Transform(RAW_tx100))

FadeAndGrow(selector, start, end) ==
  RangeRule(selector, start, end, Opacity(RAW_0) @@ Width(RAW_0px),
            Opacity(RAW_1) @@ Width(RAW_100px))

\* Definitions every rule of which is valid and resolves.
ValidDefinitions ==
  << <<FadeAndGrow(CIRCLE, 0, 4)>>,
     <<Grow(CIRCLE, 0, 5), Slide(CIRCLE, 3, 7)>>,
     <<Slide(CIRCLE, 3, 7), Grow(CIRCLE, 0, 5)>>,
     <<Grow(METEOR, 0, 7), FadeIn(CIRCLE, 3, 5)>>,
     <<FadeIn(CIRCLE, 3, 5), Grow(METEOR, 0, 7)>>,
     <<Grow(CIRCLE, 1, 2), Shrink(CIRCLE, 3, 4), InstantRule(LAYER1, 5, Display(RAW_block))>>,
     <<InstantRule(LAYER1, 5, Display(RAW_block)), Shrink(CIRCLE, 3, 4), Grow(CIRCLE, 1, 2)>>,
     <<Grow(CIRCLE, 0, 5), Shrink(CIRCLE, 1, 3), InstantRule(LAYER1, 7, Display(RAW_block))>> >>

\* A definition that define accepts although `from` and `to` hold values of
\* different variants for the property.
MismatchedDefinitions ==
  << <<RangeRule(CIRCLE, 0, 4, Width(RAW_block), Width(RAW_100px))>> >>

\* Definitions with a rule that is invalid or does not resolve.
InvalidDefinitions ==
  << <<RangeRule(CIRCLE, 0, 4, Opacity(RAW_0) @@ Width(RAW_0px), Opacity(RAW_1))>>,
     <<RangeRule(CIRCLE, 0, 4, Opacity(RAW_0), Width(RAW_100px))>>,
     <<RangeRule(CIRCLE, 0, 4, Opacity(RAW_empty), Opacity(RAW_1))>>,
     <<RangeRule(CIRCLE, 0, 4, Opacity(RAW_0), Opacity(RAW_1) @@ Width(RAW_100px))>>,
     <<Grow(CIRCLE, 5, 3)>>,
     <<Grow(CIRCLE, 2, 2)>>,
     <<Grow(UNKNOWN, 0, 4)>>,
     <<Grow(TRIANGLE, 0, 4)>>,
     <<Grow(UNKNOWN, 4, 0)>>,
     <<Grow(METEOR, 0, 4), Grow(CIRCLE, 5, 3)>>,
     <<Grow(CIRCLE, 0, 4), Grow(UNKNOWN, 0, 4)>>,
     <<Grow(CIRCLE, 5, 3), Grow(METEOR, 0, 4)>>,
     <<Grow(METEOR, 0, 4), Grow(TRIANGLE, 0, 4)>> >>

Definitions == ValidDefinitions \o MismatchedDefinitions \o InvalidDefinitions

PX == <<"p", "x">>

PERCENT == <<"%">>

TRANSLATE == <<"t", "r", "a", "n", "s", "l", "a", "t", "e">>

TRANSLATE_X == <<"t", "r", "a", "n", "s", "l", "a", "t", "e", "X">>

SCALE == <<"s", "c", "a", "l", "e">>

Entry(func, pairs) == [key |-> func, val |-> pairs]

CalcNumbers == {R(0), R(100), R(120), Rat(1, 2)}

CalcUnits == {<<>>, PX, PERCENT}

\* The parsed values the interpolator is applied to: numeric values of one
\* and two pairs, transform values of one and two functions, colors of seven
\* and four characters, and a static value.
NumericInputs ==
  {NumericValue(<<Pair(NumTok(n), u)>>) : n \in CalcNumbers, u \in CalcUnits}
    \cup {NumericValue(<<Pair(NumTok(R(100)), PX), Pair(NumTok(R(250)), PX)>>),
          NumericValue(<<Pair(NumTok(R(125)), PX), Pair(NumTok(R(100)), PX)>>)}

TransformInputs ==
  {TransformValue(<<Entry(TRANSLATE_X, <<Pair(NumTok(n), u)>>)>>) :
     n \in {R(0), R(120)}, u \in {<<>>, PX}}
    \cup {TransformValue(<<Entry(TRANSLATE, <<Pair(NumTok(R(100)), PX),
                                              Pair(NumTok(R(10)), PX)>>),
                           Entry(SCALE, <<Pair(NumTok(Rat(1, 2)), <<>>)>>)>>),
          TransformValue(<<Entry(TRANSLATE, <<Pair(NumTok(R(150)), PX),
                                              Pair(NumTok(R(5)), PX)>>),
                           Entry(SCALE, <<Pair(NumTok(R(1)), <<>>)>>)>>),
          TransformValue(<<Entry(SCALE, <<Pair(NumTok(R(1)), <<>>)>>)>>)}

ColorInputs ==
  {ColorValue(<<"#", "0", "0", "0", "0", "0", "0">>),
   ColorValue(<<"#", "f", "f", "f", "f", "f", "f">>),
   ColorValue(<<"#", "f", "f", "8", "0", "0", "0">>),
   ColorValue(<<"#", "f", "f", "f">>)}

CalcValues == NumericInputs \cup TransformInputs \cup ColorInputs \cup {StaticValue(RAW_block)}

CalcRates == {R(0), Rat(1, 4), Rat(1, 2), Rat(3, 4), R(1)}

Plugins == {"scroll"}

MaxPlugins == 1

ForwardSteps == {NoTimestep, Timestep(0), Timestep(1000), Timestep(2000)}

BackSteps == {NoTimestep, Timestep(0), Timestep(1000)}

SeekTargets == {Rat(-1, 2), R(0), Rat(1, 4), Rat(1, 2), R(1), Rat(3, 2)}

ClockSteps == {50, 150, 2000}

\* The texts cssValueParser is applied to.
REM == <<"r", "e", "m">>

DEG == <<"d", "e", "g">>

ROTATE == <<"r", "o", "t", "a", "t", "e">>

MATRIX == <<"m", "a", "t", "r", "i", "x">>

NumberTexts == {<<"0">>, <<"4", "2">>, <<"1", ".", "5">>, <<"6", "6", ".", "6">>, <<"1", "3", "3", "7">>}

UnitTexts == {<<>>, PX, PERCENT, REM, DEG}

\* A number with or without a unit: 42, 42px, 66.6%, ...
Terms == {n \o u : n \in NumberTexts, u \in UnitTexts}

UnitTerms == {<<"4", "2">> \o PX, <<"0">> \o PERCENT, <<"1", ".", "5">> \o REM}

UnitlessTerms == {<<"1", ".", "5">>, <<"4", "2">>}

\* A list of numbers: 42px 0%, 1.5 42, 42px 1.5, ...
TermLists == {a \o <<" ">> \o b : a, b \in UnitTerms \cup UnitlessTerms}

Identifiers == {RAW_block, <<"n", "o", "n", "e">>, <<"a", "u", "t", "o">>}

HexColors == {<<"#", "f", "f", "0", "0", "0", "0">>, <<"#", "f", "f", "f">>, <<"#", "0", "0", "0", "0", "0", "0">>, <<"#", "a", "b", "c", "d", "e", "f">>}

Call(func, args) == func \o <<"(">> \o args \o <<")">>

TwoArgs(a, b) == a \o <<",", " ">> \o b

\* Parameter lists whose numbers all have a unit or all have none.
ConsistentArgs ==
  UnitTerms \cup UnitlessTerms
    \cup {TwoArgs(a, b) : a, b \in UnitTerms}
    \cup {TwoArgs(a, b) : a, b \in UnitlessTerms}

\* Parameter lists that mix numbers with and without a unit, in either order.
MixedArgs ==
  {TwoArgs(a, b) : a \in UnitlessTerms, b \in UnitTerms}
    \cup {TwoArgs(a, b) : a \in UnitTerms, b \in UnitlessTerms}

SupportedCalls == {Call(f, args) : f \in {TRANSLATE, SCALE, ROTATE}, args \in ConsistentArgs}

MixedCalls == {Call(f, args) : f \in {TRANSLATE, SCALE}, args \in MixedArgs}

CallLists ==
  {a \o <<" ">> \o b : a, b \in {Call(TRANSLATE_X, <<"4", "2">> \o PERCENT),
                                 Call(SCALE, <<"1", ".", "5">>),
                                 Call(ROTATE, <<"1", "3", "3", "7">> \o DEG)}}

\* Texts outside the supported grammar: an unsupported function, functions
\* without parameters, parameters that are no numbers, an empty text.
Unsupported ==
  {Call(MATRIX, TwoArgs(<<"1">>, TwoArgs(<<"2">>, <<"3">>))), Call(TRANSLATE, <<>>), Call(MATRIX, <<>>),
   Call(TRANSLATE, PX), Call(SCALE, <<",", " ">>), RAW_empty}

\* An unsupported function after a supported one.
Trailing ==
  {Call(TRANSLATE, <<"4", "2">> \o PX) \o <<" ">> \o Call(MATRIX, <<"1", ".", "5">>)}

\* The values of the supported grammar.
Supported == Terms \cup TermLists \cup Identifiers \cup HexColors \cup SupportedCalls \cup CallLists

ParseInputs == Supported \cup MixedCalls \cup Unsupported \cup Trailing

\* The styles stylesUnion is applied to: opacity and display absent or with
\* one of two values, transform absent, with one of four function maps or
\* with the static value none.
Deg(n) == Pair(NumTok(R(n)), DEG)

Unitless(n) == Pair(NumTok(R(n)), <<>>)

UnionTransforms ==
  {TransformValue(<<Entry(ROTATE, <<Deg(180)>>)>>),
   TransformValue(<<Entry(SCALE, <<Unitless(2)>>)>>),
   TransformValue(<<Entry(ROTATE, <<Deg(180)>>), Entry(SCALE, <<Unitless(2)>>)>>),
   TransformValue(<<Entry(ROTATE, <<Deg(270)>>)>>),
   StaticValue(<<"n", "o", "n", "e">>)}

UnionOpacities == {NumericValue(<<Unitless(0)>>), NumericValue(<<Unitless(1)>>)}

UnionDisplays == {StaticValue(RAW_block), StaticValue(<<"n", "o", "n", "e">>)}

\* The styles with `prop` absent or set to one of `values`.
WithProp(prop, values) == {NoStyles} \cup {prop :> v : v \in values}

UnionStyles ==
  {o @@ d @@ t : o \in WithProp("opacity", UnionOpacities),
                 d \in WithProp("display", UnionDisplays),
                 t \in WithProp(TRANSFORM, UnionTransforms)}

-----------------------------------------------------------------------------
(* DevTools: the content script, the backend bundles it injects into the page
   and the messages between them *)

\* setTimeout(retry, 500)
RETRY_DELAY == 500

HTML == "text/html"

\* The content script after its top-level code has run. timers holds the
\* milliseconds left of each pending setTimeout(retry, 500), fallbackRelay
\* whether BackendState.fallbackRelayUnlisteners is non-empty, installs the
\* backend bundles appended to the document, detections the 'detectAngular'
\* messages handled, readyRelayed whether 'backendReady' went on to the
\* frontend.
ContentScript ==
  [backgroundDisconnected |-> FALSE, backendInitialized |-> FALSE,
   fallbackRelay |-> FALSE, installs |-> 0, detections |-> 0,
   timers |-> <<>>, readyRelayed |-> FALSE]

\* A backend bundle after its top-level code has run: the counts are the calls
\* of initializeMessageBus and initializeExtendedWindowOperations, the
\* registrations of the inspector and mousemove listeners and the emissions of
\* 'backendReady'.
BackendBundle ==
  [initialized |-> FALSE, messageBusInits |-> 0, windowInits |-> 0,
   inspectorListeners |-> 0, mousemoveListeners |-> 0,
   inspectorRunning |-> FALSE, readyEmits |-> 0]

\* The page: scripts are the bundles appended and not yet run, toBackend the
\* messages posted on the content-script-to-backend channel and not yet
\* delivered, toContent those of the other direction.
Page == [scripts |-> 0, toBackend |-> <<>>, toContent |-> <<>>]

\* The content script, the backend bundles that have run, and the page.
Tab(c, bs, pg) == [content |-> c, backends |-> bs, page |-> pg]

\* localMessageBus.emit(topic)
EmitToBackend(t, topic) == [t EXCEPT !.page.toBackend = Append(@, topic)]

\* handshakeWithBackend()
handshakeWithBackend(t) == EmitToBackend(t, "handshake")

\* setTimeout(retry, 500)
SetRetryTimeout(t) == [t EXCEPT !.content.timers = Append(@, RETRY_DELAY)]

\* A variant of retry that goes on although the backend is initialized or the
\* background has disconnected.
RetryUnguarded(t) == SetRetryTimeout(handshakeWithBackend(t))

\* retry, the closure of attemptBackendHandshake
retry(t) ==
  IF t.content.backendInitialized \/ t.content.backgroundDisconnected THEN t
  ELSE SetRetryTimeout(handshakeWithBackend(t))

\* attemptBackendHandshake()
attemptBackendHandshake(t) ==
  IF ~t.content.backendInitialized THEN retry(t) ELSE t

\* BackendState.set(state)
BackendStateSet(t, state) ==
  IF state = "failed" THEN [t EXCEPT !.content.fallbackRelay = TRUE]
  ELSE IF state = "installed" THEN [t EXCEPT !.content.fallbackRelay = FALSE]
  ELSE t

\* The result of a detection and the document's content type.
Detection(isAngularDevTools, isAngular, contentType) ==
  [isAngularDevTools |-> isAngularDevTools, isAngular |-> isAngular,
   contentType |-> contentType]

\* Whether the handler of 'detectAngular' goes on to install the backend.
Detected(detectionResult) ==
  /\ detectionResult.isAngularDevTools
  /\ detectionResult.isAngular
  /\ detectionResult.contentType = HTML

\* The backend bundle is appended to the document.
InstallBackend(t) ==
  [t EXCEPT !.page.scripts = @ + 1, !.content.installs = @ + 1]

\* detectAngularMessageBus.on('detectAngular', ...)
OnDetectAngular(t, detectionResult) ==
  IF ~Detected(detectionResult)
  THEN BackendStateSet([t EXCEPT !.content.detections = @ + 1], "failed")
  ELSE attemptBackendHandshake(
         BackendStateSet(InstallBackend([t EXCEPT !.content.detections = @ + 1]),
                         "installed"))

\* port.onDisconnect listener
OnDisconnect(t) ==
  [EmitToBackend(t, "shutdown") EXCEPT !.content.backgroundDisconnected = TRUE]

\* The listeners of localMessageBus on 'backendReady': the relay to the
\* frontend and the mark. A destroyed bus has no listeners.
OnBackendReady(t) ==
  IF t.content.backgroundDisconnected THEN t
  ELSE [t EXCEPT !.content.readyRelayed = TRUE, !.content.backendInitialized = TRUE]

\* chromeMessageBus.onAny: a message of the frontend is passed on to the backend.
RelayToBackend(t, topic) ==
  IF t.content.backgroundDisconnected THEN t ELSE EmitToBackend(t, topic)

\* A variant of OnHandshake without the guard on `initialized`.
OnHandshakeUnguarded(b) ==
  [b EXCEPT !.initialized = TRUE,
            !.messageBusInits = @ + 1,
            !.windowInits = @ + 1,
            !.inspectorListeners = @ + 1,
            !.mousemoveListeners = @ + 1,
            !.inspectorRunning = FALSE,
            !.readyEmits = @ + 1]

\* messageBus.on('handshake', ...) of a backend bundle
OnHandshake(b) ==
  IF b.initialized THEN b
  ELSE [b EXCEPT !.initialized = TRUE,
                 !.messageBusInits = @ + 1,
                 !.windowInits = @ + 1,
                 !.inspectorListeners = @ + 1,
                 !.mousemoveListeners = @ + 1,
                 !.inspectorRunning = FALSE,
                 !.readyEmits = @ + 1]

\* messageBus.on('inspectorStart', ...) and messageBus.on('inspectorEnd', ...),
\* registered by the handshake.
OnInspector(b, running) ==
  IF b.inspectorListeners > 0 THEN [b EXCEPT !.inspectorRunning = running] ELSE b

\* A message of the channel reaches a backend bundle.
BackendReceives(b, topic) ==
  IF topic = "handshake" THEN OnHandshake(b)
  ELSE IF topic = "inspectorStart" THEN OnInspector(b, TRUE)
  ELSE IF topic = "inspectorEnd" THEN OnInspector(b, FALSE)
  ELSE b

\* The 'backendReady' messages the bundles emit on receiving the topic.
RECURSIVE ReadyEmitted(_, _, _)
ReadyEmitted(bs, topic, i) ==
  IF i > Len(bs) THEN <<>>
  ELSE (IF BackendReceives(bs[i], topic).readyEmits > bs[i].readyEmits
        THEN <<"backendReady">> ELSE <<>>)
       \o ReadyEmitted(bs, topic, i + 1)

\* The oldest message to the backend reaches every bundle that has run.
DeliverToBackends(t) ==
  [t EXCEPT !.backends = [i \in 1..Len(@) |-> BackendReceives(@[i], Head(t.page.toBackend))],
            !.page.toContent = @ \o ReadyEmitted(t.backends, Head(t.page.toBackend), 1),
            !.page.toBackend = Tail(@)]

\* The oldest message to the content script reaches it.
DeliverToContent(t) ==
  [OnBackendReady(t) EXCEPT !.page.toContent = Tail(@)]

\* A pending timeout of retry runs.
RunTimeout(t, k) ==
  retry([t EXCEPT !.content.timers =
           SubSeq(@, 1, k - 1) \o SubSeq(@, k + 1, Len(@))])

\* An appended backend bundle runs its top-level code.
RunBundle(t) ==
  [t EXCEPT !.page.scripts = @ - 1, !.backends = Append(@, BackendBundle)]

\* The detections the detect script reports and the content types of the page.
Detections ==
  {Detection(TRUE, a, ct) : a \in BOOLEAN, ct \in {HTML, "application/xml"}}
    \cup {Detection(FALSE, TRUE, HTML)}

FrontendTopics == {"inspectorStart", "inspectorEnd"}

ElapseSteps == {250, 500}

MaxDetections == 2

MaxInFlight == 2

MaxSteps == 4

-----------------------------------------------------------------------------
(* The engine as a state machine *)

VARIABLES
  rules,             \* _rules: the parsed rules, times in milliseconds
  currentTime,       \* _currentTime
  duration,          \* _duration
  allObjects,        \* _allObjects: selector -> element(s)
  activeStyles,      \* _activeStyles: selector -> parsed styles, in insertion order
  animationFrameId,  \* _animationFrameId, NULL when none
  completed,         \* _completed
  isPlaying,         \* _isPlaying
  progress,          \* _progress
  plugins,           \* _plugins
  dom,               \* the styles the adapter has put on each element
  frames,            \* the frame callbacks the browser holds
  rendererStrict,    \* whether the adapter throws when handed a non-element
  inits,             \* how often each plugin was initialised
  destroys,          \* how often each plugin was destroyed
  threw,             \* the error the last call threw, NoError when it returned
  lastOp,            \* the last call and its arguments
  phase,             \* what the calls so far amount to
  steps,             \* the number of calls so far
  calc,              \* an application of calculateNextCssValue: arguments, result
  parse,             \* a text on its way through cssValueParser and the stringifier
  merge,             \* an application of stylesUnion: arguments, result
  run,               \* the wall clock of a run of the loop since play started it
  content,           \* the DevTools content script
  backends,          \* the DevTools backend bundles that have run in the page
  page               \* the page: bundles appended, messages not yet delivered

vars == <<rules, currentTime, duration, allObjects, activeStyles, animationFrameId,
          completed, isPlaying, progress, plugins, dom, frames, rendererStrict,
          inits, destroys, threw, lastOp, phase, steps, calc, parse, merge, run,
          content, backends, page>>

\* The engine and its host as one value.
Self ==
  [rules |-> rules, currentTime |-> currentTime, duration |-> duration,
   allObjects |-> allObjects, activeStyles |-> activeStyles,
   animationFrameId |-> animationFrameId, completed |-> completed,
   isPlaying |-> isPlaying, progress |-> progress, plugins |-> plugins,
   dom |-> dom, frames |-> frames, rendererStrict |-> rendererStrict,
   inits |-> inits, destroys |-> destroys, threw |-> threw]

\* The engine right after construction over the layers.
Constructed(strict) ==
  [rules |-> <<>>, currentTime |-> 0, duration |-> 0,
   allObjects |-> [k \in {LayerKey(id) : id \in LayerIds} |->
                     OneElement(LayerElement(k.id))],
   activeStyles |-> <<>>, animationFrameId |-> NULL, completed |-> FALSE,
   isPlaying |-> FALSE, progress |-> R(0), plugins |-> <<>>,
   dom |-> [e \in Elements |-> [p \in Props |-> NoStyle]],
   frames |-> {}, rendererStrict |-> strict,
   inits |-> [p \in Plugins |-> 0], destroys |-> [p \in Plugins |-> 0],
   threw |-> NoError]

\* An application of calculateNextCssValue, before and after it returns.
Calc(curr, target, rate) ==
  [curr |-> curr, target |-> target, rate |-> rate, applied |-> FALSE, next |-> Null]

NoCalc == Calc(Null, Null, R(0))

\* A text handed to cssValueParser, the value parsed from it and the text
\* stringifyParsedValue makes of that value.
Parsing(raw) == [raw |-> raw, stage |-> "raw", value |-> Null, text |-> Undefined]

NoParse == Parsing(<<>>)

\* The arguments of an application of stylesUnion, and what it returns or
\* whether it throws.
Merging(base, newStyles) ==
  [base |-> base, newStyles |-> newStyles, applied |-> FALSE, threw |-> FALSE,
   union |-> NoStyles]

NoMerge == Merging(NoStyles, NoStyles)

\* A run of the driving loop: t0 is the engine's time when play started the
\* loop, wall the milliseconds of Date.now() gone by since.
Started(t0) == [started |-> TRUE, t0 |-> t0, wall |-> 0]

NoRun == [started |-> FALSE, t0 |-> 0, wall |-> 0]

Op(op, def, ts, p, dt) == [op |-> op, def |-> def, ts |-> ts, p |-> p, dt |-> dt]

NoOp == Op("none", 0, NoTimestep, R(0), 0)

\* Whether the navigation call `op`, made now, renders a frame.
Renders(op) ==
  LET ms == IF op.ts.given THEN op.ts.ms ELSE DEFAULT_TIMESTEP
  IN  \/ op.op = "seek"
      \/ op.op = "forward" /\ currentTime + ms <= duration
      \/ op.op = "back" /\ currentTime - ms >= 0

\* What the calls amount to after `op` has taken the engine to w.
NextPhase(w, op) ==
  IF ~Ok(w) THEN "other"
  ELSE IF op.op = "define" THEN (IF phase = "constructed" THEN "defined" ELSE "other")
  ELSE IF op.op \in {"seek", "forward", "back"}
  THEN IF ~Renders(op) THEN phase
       ELSE IF phase = "defined" /\ op.op = "forward" THEN "forwarded"
       ELSE IF phase = "forwarded" /\ op.op = "back" THEN "backed"
       ELSE IF phase \in {"defined", "forwarded", "backed", "navigated"} THEN "navigated"
       ELSE phase
  ELSE "other"

\* The engine and its host after a call has taken them to w.
Returns(w, op) ==
  /\ rules' = w.rules
  /\ currentTime' = w.currentTime
  /\ duration' = w.duration
  /\ allObjects' = w.allObjects
  /\ activeStyles' = w.activeStyles
  /\ animationFrameId' = w.animationFrameId
  /\ completed' = w.completed
  /\ isPlaying' = w.isPlaying
  /\ progress' = w.progress
  /\ plugins' = w.plugins
  /\ dom' = w.dom
  /\ frames' = w.frames
  /\ rendererStrict' = w.rendererStrict
  /\ inits' = w.inits
  /\ destroys' = w.destroys
  /\ threw' = w.threw
  /\ lastOp' = op
  /\ phase' = NextPhase(w, op)
  /\ calc' = calc
  /\ parse' = parse
  /\ merge' = merge
  /\ UNCHANGED <<content, backends, page>>

Commit(w, op) ==
  /\ Returns(w, op)
  /\ steps' = steps + 1
  /\ run' = run

\* A call starts with nothing thrown.
Called == [Self EXCEPT !.threw = NoError]

Init ==
  \E strict \in BOOLEAN :
    LET w == Constructed(strict)
    IN  /\ rules = w.rules
        /\ currentTime = w.currentTime
        /\ duration = w.duration
        /\ allObjects = w.allObjects
        /\ activeStyles = w.activeStyles
        /\ animationFrameId = w.animationFrameId
        /\ completed = w.completed
        /\ isPlaying = w.isPlaying
        /\ progress = w.progress
        /\ plugins = w.plugins
        /\ dom = w.dom
        /\ frames = w.frames
        /\ rendererStrict = w.rendererStrict
        /\ inits = w.inits
        /\ destroys = w.destroys
        /\ threw = w.threw
        /\ lastOp = NoOp
        /\ phase = "constructed"
        /\ steps = 0
        /\ calc = NoCalc
        /\ parse = NoParse
        /\ merge = NoMerge
        /\ run = NoRun
        /\ content = ContentScript
        /\ backends = <<>>
        /\ page = Page

DoDefine ==
  /\ steps < MaxSteps
  /\ \E d \in 1..Len(Definitions) :
       Commit(define(Called, Definitions[d]), Op("define", d, NoTimestep, R(0), 0))

DoPlay ==
  /\ steps < MaxSteps
  /\ Commit(play(Called), Op("play", 0, NoTimestep, R(0), 0))

DoPause ==
  /\ steps < MaxSteps
  /\ Commit(pause(Called), Op("pause", 0, NoTimestep, R(0), 0))

DoSeek ==
  /\ steps < MaxSteps
  /\ \E p \in SeekTargets : Commit(seek(Called, p), Op("seek", 0, NoTimestep, p, 0))

DoForward ==
  /\ steps < MaxSteps
  /\ \E ts \in ForwardSteps : Commit(forward(Called, ts), Op("forward", 0, ts, R(0), 0))

DoBack ==
  /\ steps < MaxSteps
  /\ \E ts \in BackSteps : Commit(back(Called, ts), Op("back", 0, ts, R(0), 0))

DoReset ==
  /\ steps < MaxSteps
  /\ Commit(reset(Called), Op("reset", 0, NoTimestep, R(0), 0))

DoStop ==
  /\ steps < MaxSteps
  /\ Commit(stop(Called), Op("stop", 0, NoTimestep, R(0), 0))

DoAddPlugin ==
  /\ steps < MaxSteps
  /\ Len(plugins) < MaxPlugins
  /\ \E plugin \in Plugins :
       Commit(addPlugin(Called, plugin), Op("addPlugin", 0, NoTimestep, R(0), 0))

DoDispose ==
  /\ steps < MaxSteps
  /\ Commit(dispose(Called), Op("dispose", 0, NoTimestep, R(0), 0))

\* The browser runs a frame callback it holds, dt milliseconds after the
\* callback's `then`.
Frame ==
  /\ steps < MaxSteps
  /\ \E f \in frames, dt \in ClockSteps :
       Commit(_animate([Called EXCEPT !.frames = @ \ {f}], f.since + dt),
              Op("frame", 0, NoTimestep, R(0), dt))

Next ==
  \/ DoDefine
  \/ DoPlay
  \/ DoPause
  \/ DoSeek
  \/ DoForward
  \/ DoBack
  \/ DoReset
  \/ DoStop
  \/ DoAddPlugin
  \/ DoDispose
  \/ Frame

Spec == Init /\ [][Next]_vars

-----------------------------------------------------------------------------
(* The interpolator on its own: calculateNextCssValue applied to a pair of
   parsed values and a change rate, beside an engine that is only constructed *)

\* The engine's fields are those of w.
EngineIs(w) ==
  /\ rules = w.rules
  /\ currentTime = w.currentTime
  /\ duration = w.duration
  /\ allObjects = w.allObjects
  /\ activeStyles = w.activeStyles
  /\ animationFrameId = w.animationFrameId
  /\ completed = w.completed
  /\ isPlaying = w.isPlaying
  /\ progress = w.progress
  /\ plugins = w.plugins
  /\ dom = w.dom
  /\ frames = w.frames
  /\ rendererStrict = w.rendererStrict
  /\ inits = w.inits
  /\ destroys = w.destroys
  /\ threw = w.threw

CalcInit ==
  /\ EngineIs(Constructed(TRUE))
  /\ lastOp = NoOp
  /\ phase = "constructed"
  /\ steps = 0
  /\ \E curr \in CalcValues, target \in CalcValues, rate \in CalcRates :
       calc = Calc(curr, target, rate)
  /\ parse = NoParse
  /\ merge = NoMerge
  /\ run = NoRun
  /\ content = ContentScript
  /\ backends = <<>>
  /\ page = Page

Calculate ==
  /\ ~calc.applied
  /\ calc' = [calc EXCEPT
                !.applied = TRUE,
                !.next = calculateNextCssValue(calc.curr, calc.target, calc.rate)]
  /\ UNCHANGED <<rules, currentTime, duration, allObjects, activeStyles,
                 animationFrameId, completed, isPlaying, progress, plugins, dom,
                 frames, rendererStrict, inits, destroys, threw, lastOp, phase, steps,
                 parse, merge, run, content, backends, page>>

CalcNext == Calculate

CalcSpec == CalcInit /\ [][CalcNext]_vars

-----------------------------------------------------------------------------
(* The parser and the stringifier on their own: cssValueParser applied to a
   text, stringifyParsedValue applied to what it returns *)

ParseInit ==
  /\ EngineIs(Constructed(TRUE))
  /\ lastOp = NoOp
  /\ phase = "constructed"
  /\ steps = 0
  /\ calc = NoCalc
  /\ merge = NoMerge
  /\ run = NoRun
  /\ content = ContentScript
  /\ backends = <<>>
  /\ page = Page
  /\ \E raw \in ParseInputs : parse = Parsing(raw)

EngineUnchanged ==
  UNCHANGED <<rules, currentTime, duration, allObjects, activeStyles,
              animationFrameId, completed, isPlaying, progress, plugins, dom,
              frames, rendererStrict, inits, destroys, threw, lastOp, phase, steps>>

Parse ==
  /\ parse.stage = "raw"
  /\ parse' = [parse EXCEPT !.stage = "parsed", !.value = cssValueParser(parse.raw)]
  /\ UNCHANGED <<calc, merge, run, content, backends, page>>
  /\ EngineUnchanged

Stringify ==
  /\ parse.stage = "parsed"
  /\ parse' = [parse EXCEPT !.stage = "stringified",
                            !.text = stringifyParsedValue(parse.value)]
  /\ UNCHANGED <<calc, merge, run, content, backends, page>>
  /\ EngineUnchanged

ParseNext == Parse \/ Stringify

ParseSpec == ParseInit /\ [][ParseNext]_vars

-----------------------------------------------------------------------------
(* stylesUnion on its own: applied to base styles and new styles *)

UnionInit ==
  /\ EngineIs(Constructed(TRUE))
  /\ lastOp = NoOp
  /\ phase = "constructed"
  /\ steps = 0
  /\ calc = NoCalc
  /\ parse = NoParse
  /\ run = NoRun
  /\ content = ContentScript
  /\ backends = <<>>
  /\ page = Page
  /\ \E base \in UnionStyles, newStyles \in UnionStyles : merge = Merging(base, newStyles)

Unite ==
  /\ ~merge.applied
  /\ merge' = [merge EXCEPT
                 !.applied = TRUE,
                 !.threw = stylesUnionThrows(merge.base, merge.newStyles),
                 !.union = IF stylesUnionThrows(merge.base, merge.newStyles) THEN NoStyles
                           ELSE stylesUnion(merge.base, merge.newStyles)]
  /\ UNCHANGED <<calc, parse, run, content, backends, page>>
  /\ EngineUnchanged

UnionNext == Unite

UnionSpec == UnionInit /\ [][UnionNext]_vars

-----------------------------------------------------------------------------
(* The driving loop on its own: an engine is defined, possibly moved by a seek,
   then played, and the browser runs the frame callbacks *)

\* The definitions played: one rule of a second, and two rules and an instant
\* rule over two seconds.
PlayDefinitions ==
  << <<FadeAndGrow(CIRCLE, 0, 1)>>,
     <<Grow(METEOR, 0, 2), FadeIn(CIRCLE, 1, 2), InstantRule(LAYER1, 1, Display(RAW_block))>> >>

PlayStarts == {R(0), Rat(1, 2), R(1)}

\* The milliseconds between a frame request and the run of its callback.
TickSteps == {50, 150, 700}

PlayDefine ==
  /\ phase = "constructed"
  /\ \E d \in 1..Len(PlayDefinitions) :
       Commit(define(Called, PlayDefinitions[d]), Op("define", 0, NoTimestep, R(0), 0))

PlaySeek ==
  /\ phase = "defined"
  /\ \E p \in PlayStarts : Commit(seek(Called, p), Op("seek", 0, NoTimestep, p, 0))

\* play() with Date.now() read as the start of the run.
Begin ==
  /\ phase \in {"defined", "navigated"}
  /\ Returns(play(Called), Op("play", 0, NoTimestep, R(0), 0))
  /\ steps' = steps
  /\ run' = IF animationFrameId' # NULL THEN Started(currentTime') ELSE run

\* The browser runs the frame callback it holds, dt milliseconds after the
\* request.
Tick ==
  \E f \in frames, dt \in TickSteps :
    /\ Returns(_animate([Called EXCEPT !.frames = @ \ {f}], f.since + dt),
               Op("frame", 0, NoTimestep, R(0), dt))
    /\ steps' = steps
    /\ run' = [run EXCEPT !.wall = @ + dt]

PlayNext == PlayDefine \/ PlaySeek \/ Begin \/ Tick

PlaySpec == Init /\ [][PlayNext]_vars

\* A step of Tick as the clock of the run shows it: a frame callback is held
\* and has run after some of the TickSteps. Among the steps of PlayNext these
\* are the steps of Tick, which is enabled whenever a callback is held.
TickRuns ==
  /\ frames # {}
  /\ \E dt \in TickSteps : run' = [run EXCEPT !.wall = @ + dt]

\* The browser keeps running the frame callbacks it holds.
PlayFairSpec == PlaySpec /\ WF_run(TickRuns)

-----------------------------------------------------------------------------
(* The DevTools handshake: the content script handles detections, injects
   backend bundles and retries the handshake; the bundles answer; the page
   delivers the messages in the order they were posted *)

\* The content script, the bundles and the page as one value.
ThisTab == Tab(content, backends, page)

\* The tab after a handler or callback has taken it to t; the animation
\* engine and the applications of the pure functions are no part of it.
TabBecomes(t) ==
  /\ content' = t.content
  /\ backends' = t.backends
  /\ page' = t.page
  /\ UNCHANGED <<calc, parse, merge, run>>
  /\ EngineUnchanged

\* The detect script reports a detection to the content script.
DetectAngular ==
  /\ content.detections < MaxDetections
  /\ Len(page.toBackend) < MaxInFlight
  /\ \E detectionResult \in Detections :
       TabBecomes(OnDetectAngular(ThisTab, detectionResult))

\* An appended backend bundle runs.
BundleRuns ==
  /\ page.scripts > 0
  /\ TabBecomes(RunBundle(ThisTab))

\* Time passes, by no more than is left of a pending timeout.
Elapse ==
  /\ content.timers # <<>>
  /\ \E d \in ElapseSteps :
       /\ \A k \in 1..Len(content.timers) : content.timers[k] >= d
       /\ TabBecomes([ThisTab EXCEPT !.content.timers =
                        [k \in 1..Len(@) |-> @[k] - d]])

\* A timeout of retry that is due runs.
Timeout ==
  /\ \/ Len(page.toBackend) < MaxInFlight
     \/ content.backendInitialized
     \/ content.backgroundDisconnected
  /\ \E k \in 1..Len(content.timers) :
       /\ content.timers[k] = 0
       /\ TabBecomes(RunTimeout(ThisTab, k))

\* The background disconnects the port.
Disconnect ==
  /\ ~content.backgroundDisconnected
  /\ Len(page.toBackend) < MaxInFlight
  /\ TabBecomes(OnDisconnect(ThisTab))

\* The frontend sends an inspector message, which the content script relays.
FrontendEmits ==
  /\ ~content.backgroundDisconnected
  /\ Len(page.toBackend) < MaxInFlight
  /\ \E topic \in FrontendTopics : TabBecomes(RelayToBackend(ThisTab, topic))

\* The page delivers the oldest message to the backend.
BackendHears ==
  /\ page.toBackend # <<>>
  /\ TabBecomes(DeliverToBackends(ThisTab))

\* The page delivers the oldest message to the content script.
ContentHears ==
  /\ page.toContent # <<>>
  /\ TabBecomes(DeliverToContent(ThisTab))

DevToolsNext ==
  \/ DetectAngular
  \/ BundleRuns
  \/ Elapse
  \/ Timeout
  \/ Disconnect
  \/ FrontendEmits
  \/ BackendHears
  \/ ContentHears

DevToolsSpec == Init /\ [][DevToolsNext]_vars

\* Time passes, due timeouts run and posted messages are delivered.
DevToolsFairSpec ==
  /\ DevToolsSpec
  /\ WF_vars(Elapse)
  /\ WF_vars(Timeout)
  /\ WF_vars(BackendHears)
  /\ WF_vars(ContentHears)

-----------------------------------------------------------------------------
(* Properties *)

\* The definition the last define call was given.
LastDefinition == Definitions[lastOp.def]

\* The permutations of a sequence.
Reorderings(s) ==
  {[i \in 1..Len(s) |-> s[f[i]]] : f \in Permutations(1..Len(s))}

\* The cache as a function of the selector, whatever the insertion order.
CacheView(m) == [selector \in MapKeys(m) |-> MapGet(m, selector)]

\* The elements a registered selector resolves to.
ResolvedElements(objects, selector) ==
  {objects[selector].els[i] : i \in 1..Len(objects[selector].els)}

\* C1: after a successful define, duration is the greatest end time of the
\* definition's rules (timespan[1] of a range rule, at of an instant rule) in
\* milliseconds, and define gives the same duration for every reordering of the
\* definition.
C1_DurationIsMaxEnd ==
  (lastOp.op = "define" /\ threw = NoError) =>
    LET ends == {getEndTime(LastDefinition[i]) * 1000 : i \in 1..Len(LastDefinition)}
    IN  /\ duration \in ends
        /\ \A e \in ends : e <= duration
        /\ \A d \in Reorderings(LastDefinition) :
             LET w == define(Constructed(rendererStrict), d)
             IN  Ok(w) /\ w.duration = duration

\* C1 happens: a definition is installed whose greatest end time is not the
\* end time of the rule that starts last.
C1_Witness ==
  /\ lastOp.op = "define"
  /\ threw = NoError
  /\ Len(rules) = 2
  /\ duration = 7000
  /\ getEndTime(rules[2]) = 5000

\* The numbers of a parsed value: the pairs of a numeric value, the arguments
\* of a transform value function by function.
RECURSIVE ArgumentNumbers(_)
ArgumentNumbers(m) ==
  IF m = <<>> THEN <<>>
  ELSE [i \in 1..Len(m[1].val) |-> JsToNumber(m[1].val[i].n)] \o ArgumentNumbers(Tail(m))

Numbers(value) ==
  IF value.type = "numeric"
  THEN [i \in 1..Len(value.values) |-> JsToNumber(value.values[i].n)]
  ELSE IF value.type = "transform" THEN ArgumentNumbers(value.values)
  ELSE <<>>

\* a + (b - a) * (t - start) / (end - start)
Linear(a, b, start, end, t) ==
  RAdd(a, RDiv(RMul(RSub(b, a), R(t - start)), R(end - start)))

\* Each selector/property is animated by one rule.
OneRulePerProperty ==
  \A i, j \in 1..Len(rules) :
    (i # j /\ rules[i].selector = rules[j].selector) =>
      (DOMAIN getEndStyles(rules[i])) \cap (DOMAIN getEndStyles(rules[j])) = {}

\* The rule r holds the linear value of its numeric components at the current
\* time, in the cache and on every element of its selector.
HoldsLinearValues(r) ==
  \A prop \in DOMAIN r.to :
    (r.from[prop].type = r.to[prop].type /\ Numbers(r.to[prop]) # <<>>) =>
      /\ MapHas(activeStyles, r.selector)
      /\ prop \in DOMAIN MapGet(activeStyles, r.selector)
      /\ LET held == MapGet(activeStyles, r.selector)[prop]
             a    == Numbers(r.from[prop])
             b    == Numbers(r.to[prop])
         IN  /\ held.type = r.to[prop].type
             /\ Len(Numbers(held)) = Len(b)
             /\ \A k \in 1..Len(b) :
                  Numbers(held)[k]
                    = Linear(a[k], b[k], r.timespan[1], r.timespan[2], currentTime)
             /\ \A e \in ResolvedElements(allObjects, r.selector) :
                  dom[e][prop] = stringifyParsedValue(held)

\* C2: on a freshly defined engine at time 0 where each selector/property is
\* animated by one range rule, forward(t) landing inside a rule writes the
\* linear value a + (b - a) * (t - start) / (end - start) for every numeric
\* component, and so does a following back(d) landing inside the rule.
C2_LinearValues ==
  (phase \in {"forwarded", "backed"} /\ OneRulePerProperty) =>
    \A i \in 1..Len(rules) :
      (/\ rules[i].isRange
       /\ getStartTime(rules[i]) <= currentTime
       /\ currentTime <= getEndTime(rules[i])) => HoldsLinearValues(rules[i])

\* The engine freshly defined with the rules of the current one.
Fresh ==
  [Constructed(rendererStrict) EXCEPT !.rules = rules, !.duration = duration,
                                      !.allObjects = allObjects]

\* C3: after any sequence of seek/forward/back calls on a freshly defined
\* engine, the styles on the elements and the cache are those of an engine
\* taken to the same time by one forward call.
C3_TimeAddressable ==
  (phase \in {"forwarded", "backed", "navigated"} /\ currentTime <= duration) =>
    LET direct == forward(Fresh, Timestep(currentTime))
    IN  /\ Ok(direct)
        /\ direct.dom = dom
        /\ CacheView(direct.activeStyles) = CacheView(activeStyles)

\* C4: once seek(p) has returned on a defined engine, calling seek(p) again
\* leaves the styles on the elements and the cache as they are.
C4_SeekIdempotent ==
  (lastOp.op = "seek" /\ threw = NoError /\ rules # <<>>) =>
    LET again == seek(Called, lastOp.p)
    IN  /\ Ok(again)
        /\ again.dom = dom
        /\ CacheView(again.activeStyles) = CacheView(activeStyles)

\* C5: after reset() the cache is empty and every property it held is removed
\* from every element its selector resolves to, one element or several.
C5_ResetComplete ==
  [][lastOp'.op = "reset" =>
       /\ activeStyles' = <<>>
       /\ \A i \in 1..Len(activeStyles) :
            \A prop \in DOMAIN activeStyles[i].val :
              \A e \in ResolvedElements(allObjects, activeStyles[i].key) :
                dom'[e][prop] = NoStyle]_vars

\* The properties of a rule's `to` that have no non-empty `from` value.
MissingFrom(rule) ==
  {prop \in DOMAIN rule.to : prop \notin DOMAIN rule.from \/ rule.from[prop] = <<>>}

ProperRange(rule) == rule.isRange /\ rule.timespan[1] < rule.timespan[2]

\* The rules before the i-th of the last definition pass validation and
\* resolve.
EarlierRulesPass(i) ==
  Ok(_extractObjectsAndValidateRules(Called, SubSeq(LastDefinition, 1, i - 1), 1))

\* C6 as stated: define throws a validation error for a range rule exactly
\* when its `from` and `to` do not declare the same property names, and the
\* error names the selector and the property that one side lacks.
C6_SamePropertySets ==
  (lastOp.op = "define" /\ ProperRange(LastDefinition[1])) =>
    LET rule == LastDefinition[1]
    IN  IF DOMAIN rule.from = DOMAIN rule.to
        THEN threw.code \notin {"StylesCountMismatch", "MissingFromStyle"}
             \/ threw.selector # rule.selector
        ELSE /\ threw.code \in {"StylesCountMismatch", "MissingFromStyle"}
             /\ threw.selector = rule.selector
             /\ threw.prop \in (DOMAIN rule.from \ DOMAIN rule.to)
                                 \cup (DOMAIN rule.to \ DOMAIN rule.from)

\* C6 amended: for a range rule with start < end that define reaches, define
\* throws the count error naming only the selector exactly when `from` and
\* `to` declare different numbers of properties; with equal numbers it throws
\* the missing-style error, naming the selector and a `to` property without a
\* non-empty `from` value, exactly when there is such a property; otherwise
\* the rule raises no validation error.
C6_CountThenMissingFrom ==
  lastOp.op = "define" =>
    \A i \in 1..Len(LastDefinition) :
      (ProperRange(LastDefinition[i]) /\ EarlierRulesPass(i)) =>
        LET rule == LastDefinition[i]
        IN  IF Cardinality(DOMAIN rule.from) # Cardinality(DOMAIN rule.to)
            THEN threw = Err("StylesCountMismatch", rule.selector, "", "")
            ELSE IF MissingFrom(rule) # {}
            THEN /\ threw.code = "MissingFromStyle"
                 /\ threw.selector = rule.selector
                 /\ threw.prop \in MissingFrom(rule)
            ELSE ~(/\ threw.code \in {"StylesCountMismatch", "MissingFromStyle"}
                   /\ threw.selector = rule.selector
                   /\ \A j \in 1..Len(LastDefinition) :
                        LastDefinition[j].selector = rule.selector => j = i)

\* C6 happens: define has rejected from:{opacity, width}, to:{opacity} with the
\* count error, which names the selector and no property.
C6_Witness ==
  /\ lastOp.op = "define"
  /\ DOMAIN LastDefinition[1].from = {"opacity", "width"}
  /\ DOMAIN LastDefinition[1].to = {"opacity"}
  /\ threw = Err("StylesCountMismatch", CIRCLE, "", "")

\* C7: define throws a validation error naming the selector for every range
\* rule it reaches whose timespan has start >= end, and raises no timespan
\* error for a range rule with start < end.
C7_StartBeforeEnd ==
  lastOp.op = "define" =>
    \A i \in 1..Len(LastDefinition) :
      LET rule == LastDefinition[i]
      IN  (rule.isRange /\ EarlierRulesPass(i)) =>
            IF rule.timespan[1] >= rule.timespan[2]
            THEN /\ threw.code \in {"IncorrectTimespan", "ZeroDuration"}
                 /\ threw.selector = rule.selector
                 /\ threw.prop = ""
            ELSE ~(/\ threw.code \in {"IncorrectTimespan", "ZeroDuration"}
                   /\ \A j \in 1..Len(LastDefinition) :
                        (j # i /\ LastDefinition[j].isRange) =>
                          LastDefinition[j].timespan[1] < LastDefinition[j].timespan[2])

\* C7 happens: define has rejected a zero-length rule that follows a valid one
\* or stands alone.
C7_Witness ==
  /\ lastOp.op = "define"
  /\ threw = Err("ZeroDuration", CIRCLE, "", "")

C9_ResolutionErrors ==
  [][lastOp'.op = "define" =>
       \A i \in 1..Len(Definitions[lastOp'.def]) :
         LET def  == Definitions[lastOp'.def]
             rule == def[i]
             pre  == _extractObjectsAndValidateRules(Called, SubSeq(def, 1, i - 1), 1)
         IN  (Ok(pre) /\ _validateRules(rule) = NoError) =>
               IF rule.selector.id \notin LayerIds
               THEN /\ threw' = Err("MissingLayerId", NoSelector, "", rule.selector.id)
                    /\ rules' = rules
               ELSE IF rule.selector.obj # ""
                       /\ getElementsByClassName(rule.selector.id, rule.selector.obj) = <<>>
               THEN /\ threw' = Err("MissingLayerObjects", rule.selector, "", "")
                    /\ rules' = rules
               ELSE TRUE]_vars

\* C9 happens: define has failed on a valid rule whose object selector
\* matches nothing below a registered layer, after rules were installed by an
\* earlier define.
C9_Witness ==
  /\ lastOp.op = "define"
  /\ threw = Err("MissingLayerObjects", TRIANGLE, "", "")
  /\ rules # <<>>

\* C10: while no rules are defined, play, forward, back and seek return
\* without throwing, leave the current time, the Completed flag, the playing
\* flag, the cache and the styles on the elements unchanged, and no frame
\* callback is scheduled.
C10_NoRulesNoEffect ==
  [][(rules = <<>> /\ lastOp'.op \in {"play", "forward", "back", "seek"}) =>
       /\ threw' = NoError
       /\ currentTime' = currentTime
       /\ completed' = completed
       /\ isPlaying' = isPlaying
       /\ activeStyles' = activeStyles
       /\ dom' = dom
       /\ frames' = {}
       /\ animationFrameId' = NULL]_vars

\* C10 happens: forward is called on an engine that was defined, completed
\* and disposed.
C10_Witness ==
  /\ rules = <<>>
  /\ completed
  /\ lastOp.op = "forward"

\* C11: a forward whose candidate time currentTime + timestep reaches the
\* duration exactly or exceeds it marks the engine Completed, so that the
\* play that follows it restarts from time 0.
C11_ForwardCompletes ==
  [][/\ (lastOp'.op = "forward" /\ rules # <<>> /\ threw' = NoError
         /\ currentTime + TimestepOrDefault(lastOp'.ts) >= duration)
          => completed'
     /\ (lastOp'.op = "play" /\ lastOp.op = "forward" /\ rules # <<>>
         /\ threw = NoError /\ threw' = NoError /\ currentTime = duration)
          => currentTime' = 0]_vars

\* C12: a forward whose candidate time is greater than the duration renders
\* nothing: the current time, the progress, the cache and the styles on the
\* elements are as before the call, and the engine is Completed.
C12_ForwardBeyondEnd ==
  [][(lastOp'.op = "forward" /\ rules # <<>>
      /\ currentTime + TimestepOrDefault(lastOp'.ts) > duration) =>
       /\ threw' = NoError
       /\ currentTime' = currentTime
       /\ progress' = progress
       /\ activeStyles' = activeStyles
       /\ dom' = dom
       /\ completed']_vars

\* C12 happens: a forward beyond the duration was called half way through,
\* with styles applied.
C12_Witness ==
  /\ lastOp.op = "forward"
  /\ rules # <<>>
  /\ 0 < currentTime
  /\ currentTime < duration
  /\ currentTime + TimestepOrDefault(lastOp.ts) > duration
  /\ activeStyles # <<>>
  /\ completed

\* C13: on a defined engine, back with currentTime - timestep >= 0 renders the
\* frame at that time and leaves the engine not Completed; with a negative
\* candidate time it leaves the current time, the Completed flag, the cache
\* and the styles on the elements as they were.
C13_BackWithinRange ==
  [][(lastOp'.op = "back" /\ rules # <<>> /\ threw' = NoError) =>
       IF currentTime - TimestepOrDefault(lastOp'.ts) >= 0
       THEN /\ currentTime' = currentTime - TimestepOrDefault(lastOp'.ts)
            /\ progress' = RDiv(R(currentTime'), R(duration))
            /\ ~completed'
       ELSE /\ currentTime' = currentTime
            /\ progress' = progress
            /\ completed' = completed
            /\ activeStyles' = activeStyles
            /\ dom' = dom]_vars

\* C13 happens: a back that rendered a frame follows a forward that rendered
\* one.
C13_Witness ==
  /\ lastOp.op = "back"
  /\ phase = "backed"
  /\ threw = NoError
  /\ 0 < currentTime
  /\ activeStyles # <<>>

\* progress clamped into [0, 1]
Clamped(p) == IF RLt(p, R(0)) THEN R(0) ELSE IF RLt(R(1), p) THEN R(1) ELSE p

\* C14: a seek on a defined engine that returns has paused and rendered the
\* frame at time round(clamped * duration) for every progress, in range or
\* not, and leaves the engine Completed if and only if the clamped progress
\* is 1.
C14_SeekClamps ==
  [][(lastOp'.op = "seek" /\ rules # <<>> /\ threw' = NoError) =>
       /\ ~isPlaying'
       /\ animationFrameId' = NULL
       /\ frames' = {}
       /\ currentTime' = RRound(RMul(Clamped(lastOp'.p), R(duration))).n
       /\ progress' = RDiv(R(currentTime'), R(duration))
       /\ completed' = (Clamped(lastOp'.p) = R(1))]_vars

\* C14 happens: a seek beyond 1 has rendered the last frame.
C14_Witness ==
  /\ lastOp.op = "seek"
  /\ threw = NoError
  /\ RLt(R(1), lastOp.p)
  /\ rules # <<>>
  /\ currentTime = duration
  /\ completed
  /\ activeStyles # <<>>

\* C15: after a reset or a stop that returns, from any state, the current
\* time is 0, the engine is not playing and it is not Completed.
C15_ResetUncompletes ==
  [][(lastOp'.op \in {"reset", "stop"} /\ threw' = NoError) =>
       /\ currentTime' = 0
       /\ progress' = R(0)
       /\ ~isPlaying'
       /\ ~completed']_vars

\* C16: play on a paused, defined engine returns with the playing flag set;
\* when the engine was Completed it is first reset to time 0, every applied
\* style is removed and Completed is cleared; otherwise it resumes from the
\* current time and the applied styles are as before the call.
C16_PlayStarts ==
  [][(lastOp'.op = "play" /\ rules # <<>> /\ animationFrameId = NULL) =>
       /\ threw' = NoError
       /\ isPlaying'
       /\ IF completed
          THEN /\ currentTime' = 0
               /\ ~completed'
               /\ activeStyles' = <<>>
               /\ \A i \in 1..Len(activeStyles) :
                    \A prop \in DOMAIN activeStyles[i].val :
                      \A e \in ResolvedElements(allObjects, activeStyles[i].key) :
                        dom'[e][prop] = NoStyle
          ELSE /\ currentTime' = currentTime
               /\ completed' = completed
               /\ activeStyles' = activeStyles
               /\ dom' = dom]_vars

\* The loop does not run: no frame callback is pending.
LoopIdle == ~isPlaying /\ animationFrameId = NULL /\ frames = {}

\* C17: after pause the playing flag is false and no frame callback is
\* pending, so that no tick runs until the next play; pause leaves the current
\* time, the progress, the cache and the styles on the elements as they were,
\* and a second pause changes nothing at all.
C17_PauseIdempotent ==
  [][/\ lastOp'.op = "pause" =>
          /\ threw' = NoError
          /\ ~isPlaying'
          /\ animationFrameId' = NULL
          /\ frames' = {}
          /\ currentTime' = currentTime
          /\ progress' = progress
          /\ completed' = completed
          /\ activeStyles' = activeStyles
          /\ dom' = dom
          /\ (lastOp.op = "pause" => Self' = Self)
     /\ lastOp'.op = "frame" => (lastOp.op # "pause" /\ isPlaying)
     /\ (lastOp.op = "pause" /\ currentTime' # currentTime) =>
          lastOp'.op \notin {"frame", "pause"}]_vars

\* C17 happens: pause is called after a tick of the loop has rendered the
\* frame at 150 ms, a time only a tick reaches.
C17_Witness ==
  /\ lastOp.op = "pause"
  /\ LoopIdle
  /\ currentTime = 150
  /\ activeStyles # <<>>

\* How often plugin p occurs among the retained plugins.
Retained(p) == Cardinality({i \in 1..Len(plugins) : plugins[i] = p})

\* C18: addPlugin runs the plugin's init once and retains the plugin; dispose
\* runs destroy once for every retained plugin, cancels the loop, resets, and
\* discards the rules, the duration and the plugins, so that a second dispose
\* runs no destroy.
C18_PluginLifecycle ==
  [][/\ lastOp'.op = "addPlugin" =>
          \E p \in Plugins :
            /\ inits' = [inits EXCEPT ![p] = @ + 1]
            /\ plugins' = Append(plugins, p)
            /\ destroys' = destroys
     /\ lastOp'.op = "dispose" =>
          /\ threw' = NoError
          /\ \A p \in Plugins : destroys'[p] = destroys[p] + Retained(p)
          /\ inits' = inits
          /\ LoopIdle'
          /\ currentTime' = 0
          /\ activeStyles' = <<>>
          /\ rules' = <<>>
          /\ duration' = 0
          /\ plugins' = <<>>
     /\ (lastOp.op = "dispose" /\ lastOp'.op = "dispose") => destroys' = destroys]_vars

\* The function names of a transform value, in the order of its Map.
Functions(value) == [i \in 1..Len(value.values) |-> value.values[i].key]

\* curr and target are of the same variant and of matching shape: as many
\* pairs, the same functions with as many parameters each, colors as long.
MatchingShape(curr, target) ==
  /\ curr.type = target.type
  /\ curr.type \in {"numeric", "transform", "color"}
  /\ curr.type = "numeric" => Len(curr.values) = Len(target.values)
  /\ curr.type = "transform" =>
       /\ Functions(curr) = Functions(target)
       /\ \A i \in 1..Len(curr.values) :
            Len(curr.values[i].val) = Len(target.values[i].val)
  /\ curr.type = "color" => Len(curr.value) = Len(target.value)

\* C19: for current and target values of the same variant and matching
\* shape, whatever their units, calculateNextCssValue gives the current value
\* at change rate 0 and the target value at change rate 1.
C19_BoundaryLaw ==
  (calc.applied /\ MatchingShape(calc.curr, calc.target)) =>
    /\ calc.rate = R(0) => calc.next = calc.curr
    /\ calc.rate = R(1) => calc.next = calc.target

\* curr + (target - curr) * rate, with target's unit unless it is empty.
Between(curr, target, rate) ==
  Pair(NumTok(RAdd(curr.n.v, RMul(RSub(target.n.v, curr.n.v), rate))),
       IF target.u # <<>> THEN target.u ELSE curr.u)

PairsBetween(currPairs, targetPairs, rate) ==
  [i \in 1..Len(targetPairs) |-> Between(currPairs[i], targetPairs[i], rate)]

\* curr holds a component for every component of target.
Covers(curr, target) ==
  /\ curr.type = target.type
  /\ curr.type = "numeric" => Len(curr.values) >= Len(target.values)
  /\ curr.type = "transform" =>
       \A i \in 1..Len(target.values) :
         /\ MapHas(curr.values, target.values[i].key)
         /\ Len(MapGet(curr.values, target.values[i].key)) >= Len(target.values[i].val)

\* C20: for numeric and transform values every component of the result of
\* calculateNextCssValue is curr + (target - curr) * rate and carries target's
\* unit when that is not empty, else curr's unit; a transform result has
\* target's functions.
C20_ComponentwiseLinear ==
  (calc.applied /\ calc.target.type \in {"numeric", "transform"}
   /\ Covers(calc.curr, calc.target)) =>
    IF calc.target.type = "numeric"
    THEN calc.next = NumericValue(PairsBetween(calc.curr.values, calc.target.values,
                                               calc.rate))
    ELSE /\ calc.next.type = "transform"
         /\ Functions(calc.next) = Functions(calc.target)
         /\ \A i \in 1..Len(calc.target.values) :
              calc.next.values[i].val
                = PairsBetween(MapGet(calc.curr.values, calc.target.values[i].key),
                               calc.target.values[i].val, calc.rate)

\* C20 happens: 100% moves a quarter of the way towards a zero without unit
\* and gives 75%.
C20_Witness ==
  /\ calc.applied
  /\ calc.curr = NumericValue(<<Pair(NumTok(R(100)), PERCENT)>>)
  /\ calc.target = NumericValue(<<Pair(NumTok(R(0)), <<>>)>>)
  /\ calc.rate = Rat(1, 4)
  /\ calc.next = NumericValue(<<Pair(NumTok(R(75)), PERCENT)>>)

\* A color of '#' and six hex digits.
WellFormedColor(value) ==
  /\ value.type = "color"
  /\ Len(value.value) = 7
  /\ value.value[1] = "#"
  /\ \A i \in 2..7 : IsHex(value.value[i])

\* The k-th channel (1 red, 2 green, 3 blue) of a well-formed color.
Channel(value, k) == 16 * HexVal(value.value[2 * k]) + HexVal(value.value[2 * k + 1])

BLACK == ColorValue(<<"#", "0", "0", "0", "0", "0", "0">>)

WHITE == ColorValue(<<"#", "f", "f", "f", "f", "f", "f">>)

\* C21: for well-formed colors the result of calculateNextCssValue is a
\* well-formed color whose every channel is round(curr + (target - curr) * rate),
\* an integer of 0..255 between the current and the target channel; black
\* towards white at rate 1/2 is #808080.
C21_ColorChannels ==
  (calc.applied /\ WellFormedColor(calc.curr) /\ WellFormedColor(calc.target)) =>
    /\ WellFormedColor(calc.next)
    /\ \A k \in 1..3 :
         LET c == Channel(calc.curr, k)
             t == Channel(calc.target, k)
             n == Channel(calc.next, k)
         IN  /\ R(n) = RRound(RAdd(R(c), RMul(R(t - c), calc.rate)))
             /\ n \in 0..255
             /\ (c <= n /\ n <= t) \/ (t <= n /\ n <= c)
    /\ (calc.curr = BLACK /\ calc.target = WHITE /\ calc.rate = Rat(1, 2)) =>
         calc.next = ColorValue(<<"#", "8", "0", "8", "0", "8", "0">>)

\* C21 happens: black is blended half way towards white.
C21_Witness ==
  /\ calc.applied
  /\ calc.curr = BLACK
  /\ calc.target = WHITE
  /\ calc.rate = Rat(1, 2)
  /\ calc.next = ColorValue(<<"#", "8", "0", "8", "0", "8", "0">>)

\* C22: a transform function whose parameters mix numbers with and without a
\* unit, in either order, is parsed to the static value of the whole text.
C22_MixedUnitsAreStatic ==
  (parse.stage # "raw" /\ parse.raw \in MixedCalls) =>
    parse.value = StaticValue(parse.raw)

\* C23: cssValueParser returns one of the four variants for every text, and
\* for an unsupported function, a malformed parameter list or a function
\* without parameters it returns the static value of the whole text.
C23_ParserLenient ==
  parse.stage # "raw" =>
    /\ parse.value.type \in {"static", "color", "numeric", "transform"}
    /\ parse.raw \in Unsupported => parse.value = StaticValue(parse.raw)

IsSeparator(c) == c \in {" ", ",", "(", ")"}

\* The words of a text: what stands between spaces, commas and brackets.
RECURSIVE SplitWords(_, _, _, _)
SplitWords(s, i, word, acc) ==
  IF i > Len(s) THEN (IF word = <<>> THEN acc ELSE Append(acc, word))
  ELSE IF IsSeparator(s[i])
  THEN SplitWords(s, i + 1, <<>>, IF word = <<>> THEN acc ELSE Append(acc, word))
  ELSE SplitWords(s, i + 1, Append(word, s[i]), acc)

NumberLength(word) ==
  CHOOSE k \in 0..Len(word) :
    /\ \A i \in 1..k : IsDigit(word[i]) \/ word[i] = "."
    /\ k < Len(word) => ~(IsDigit(word[k + 1]) \/ word[k + 1] = ".")

\* A word as a number with its unit, or as a name.
Item(word) ==
  LET k == NumberLength(word)
  IN  IF k = 0 THEN [name |-> word]
      ELSE [n |-> ParseFloat(SubSeq(word, 1, k)), u |-> SubSeq(word, k + 1, Len(word))]

Items(s) == LET words == SplitWords(s, 1, <<>>, <<>>)
            IN  [i \in 1..Len(words) |-> Item(words[i])]

\* C24: for a text of the supported grammar, stringifying the parsed value
\* gives a text with the same numbers, units and names in the same order.
C24_RoundTrip ==
  (parse.stage = "stringified" /\ parse.raw \in Supported) =>
    /\ parse.text.k = "str"
    /\ Items(parse.text.s) = Items(parse.raw)

\* The rules that set `prop` on `selector` and have ended before `time`.
Ended(rs, selector, prop, time) ==
  {i \in 1..Len(rs) : /\ rs[i].selector = selector
                      /\ prop \in DOMAIN getEndStyles(rs[i])
                      /\ time > getEndTime(rs[i])}

\* Whether a rule that moves `prop` of `selector` is in progress at `time`.
Running(rs, selector, prop, time) ==
  \E i \in 1..Len(rs) : /\ rs[i].selector = selector
                        /\ InProgress(rs[i], time)
                        /\ prop \in DOMAIN rs[i].to

\* C25: after a frame at a time past the end of several rules for one
\* selector and property, none being in progress for them, the value applied
\* is the end value of the rule that ends last.
C25_LastWriteWins ==
  [][(currentTime' # currentTime /\ threw' = NoError /\ rules' = rules) =>
       \A i \in 1..Len(rules) : \A prop \in DOMAIN getEndStyles(rules[i]) :
         LET ended == Ended(rules, rules[i].selector, prop, currentTime')
         IN  (/\ i \in ended
              /\ Cardinality(ended) > 1
              /\ \A j \in ended \ {i} : getEndTime(rules[j]) < getEndTime(rules[i])
              /\ ~Running(rules, rules[i].selector, prop, currentTime'))
             => /\ prop \in DOMAIN CachedStyles(activeStyles', rules[i].selector)
                /\ CachedStyles(activeStyles', rules[i].selector)[prop]
                     = getEndStyles(rules[i])[prop]]_vars

\* Whether the step is a frame update that moves the current time.
FrameMoved ==
  /\ lastOp'.op \in {"seek", "forward", "back", "frame"}
  /\ currentTime' # currentTime
  /\ threw' = NoError
  /\ rules' = rules

\* C26: when a frame update moves to a time at which no completed and no
\* in-progress rule produces a property that the cache held for a selector,
\* the property is off every element of the selector and out of the cache
\* after the update.
C26_RemovedOnExit ==
  [][FrameMoved =>
       \A k \in 1..Len(activeStyles) : \A prop \in DOMAIN activeStyles[k].val :
         LET selector == activeStyles[k].key
         IN  (/\ Ended(rules, selector, prop, currentTime') = {}
              /\ ~Running(rules, selector, prop, currentTime'))
             => /\ prop \notin DOMAIN CachedStyles(activeStyles', selector)
                /\ \A e \in 1..Len(allObjects[selector].els) :
                     dom'[allObjects[selector].els[e]][prop] = NoStyle]_vars

\* C26 happens: a seek or a back has taken the engine to before the start of
\* the rules of a selector whose styles were applied, and the cache holds the
\* selector with no property left.
C26_Witness ==
  /\ lastOp.op \in {"seek", "back"}
  /\ threw = NoError
  /\ rules # <<>>
  /\ \E k \in 1..Len(activeStyles) :
       /\ DOMAIN activeStyles[k].val = {}
       /\ \A i \in 1..Len(rules) :
            rules[i].selector = activeStyles[k].key => currentTime < getStartTime(rules[i])

\* The elements a selector stands for.
ElementsOf(selector) ==
  IF selector.obj = "" THEN <<LayerElement(selector.id)>>
  ELSE getElementsByClassName(selector.id, selector.obj)

Selectors == {CIRCLE, METEOR, LAYER1}

\* The cache and the elements agree on a property of a selector: a cached
\* value is on each element as its text, and without a cached value the
\* elements carry no style for the property.
Agree(cache, styles, selector, prop) ==
  \A e \in 1..Len(ElementsOf(selector)) :
    LET onElement == styles[ElementsOf(selector)[e]][prop]
    IN  IF prop \in DOMAIN CachedStyles(cache, selector)
        THEN /\ onElement.k = "str"
             /\ onElement = stringifyParsedValue(CachedStyles(cache, selector)[prop])
        ELSE onElement = NoStyle

AgreeOn(cache, styles, props) ==
  \A selector \in Selectors : \A prop \in props : Agree(cache, styles, selector, prop)

\* C27: define, seek, forward, back, play and the frames of a playing engine
\* keep the cache and the elements in agreement: after each of them the cache
\* holds exactly the properties that are on the elements, with their values.
C27_CacheMatchesDom ==
  [][(/\ lastOp'.op \in {"define", "seek", "forward", "back", "play", "frame"}
      /\ AgreeOn(activeStyles, dom, Props))
       => AgreeOn(activeStyles', dom', Props)]_vars

\* Whether a rule other than rules[i] that moves `prop` of the same selector
\* is in progress at `time`.
OtherRunning(rs, i, prop, time) ==
  \E j \in 1..Len(rs) \ {i} : /\ rs[j].selector = rs[i].selector
                              /\ InProgress(rs[j], time)
                              /\ prop \in DOMAIN rs[j].to

\* C28: a frame update that moves, forwards or backwards, to the end time of
\* a range rule applies the rule's `to` value for each of its properties
\* (no other rule being in progress for the property).
C28_ToValueAtEnd ==
  [][FrameMoved =>
       \A i \in 1..Len(rules) : \A prop \in DOMAIN rules[i].to :
         (/\ rules[i].isRange
          /\ currentTime' = getEndTime(rules[i])
          /\ ~OtherRunning(rules, i, prop, currentTime'))
         => /\ prop \in DOMAIN CachedStyles(activeStyles', rules[i].selector)
            /\ CachedStyles(activeStyles', rules[i].selector)[prop] = rules[i].to[prop]]_vars

\* curr has the variant and the shape that target asks for: as many pairs
\* for a numeric target, every function of a transform target.
SameShape(curr, target) ==
  /\ curr.type = target.type
  /\ target.type = "numeric" => Len(curr.values) = Len(target.values)
  /\ target.type = "transform" =>
       \A i \in 1..Len(target.values) : MapHas(curr.values, target.values[i].key)

\* The value the interpolator gets as curr for a property of a rule: that of
\* the union of the rule's `from` styles and the cached styles.
Baseline(rule, cache, prop) ==
  LET union == stylesUnion(rule.from, CachedStyles(cache, rule.selector))
  IN  IF prop \in DOMAIN union THEN union[prop] ELSE UndefinedValue

\* C29: for the rules define has accepted and the cache as it stands, the
\* value the interpolator would get as curr for a property of a range rule
\* has the variant and the shape of the rule's `to` value (the target of a
\* move forwards) and of its `from` value (the target of a move backwards).
C29_MatchingShapes ==
  \A i \in 1..Len(rules) :
    rules[i].isRange =>
      /\ ~stylesUnionThrows(rules[i].from, CachedStyles(activeStyles, rules[i].selector))
      /\ \A prop \in DOMAIN rules[i].to :
           SameShape(Baseline(rules[i], activeStyles, prop), rules[i].to[prop])
      /\ \A prop \in DOMAIN rules[i].from :
           SameShape(Baseline(rules[i], activeStyles, prop), rules[i].from[prop])

\* C30: stylesUnion(base, newStyles) has the properties of both; a property
\* of newStyles has the value of newStyles, a property of base alone that of
\* base, and a transform in both is the map of base's functions with those of
\* newStyles set over them, function by function.
C30_UnionBaseline ==
  merge.applied =>
    /\ ~merge.threw
    /\ DOMAIN merge.union = DOMAIN merge.base \cup DOMAIN merge.newStyles
    /\ \A prop \in DOMAIN merge.union :
         IF prop = TRANSFORM /\ prop \in DOMAIN merge.base /\ prop \in DOMAIN merge.newStyles
         THEN /\ merge.union[prop].type = "transform"
              /\ MapKeys(merge.union[prop].values)
                   = MapKeys(SpreadValues(merge.base[prop]))
                       \cup MapKeys(SpreadValues(merge.newStyles[prop]))
              /\ \A f \in MapKeys(merge.union[prop].values) :
                   MapGet(merge.union[prop].values, f)
                     = IF MapHas(SpreadValues(merge.newStyles[prop]), f)
                       THEN MapGet(merge.newStyles[prop].values, f)
                       ELSE MapGet(merge.base[prop].values, f)
         ELSE merge.union[prop]
                = IF prop \in DOMAIN merge.newStyles THEN merge.newStyles[prop]
                  ELSE merge.base[prop]

\* C31: while the loop that play started runs, the engine's time has advanced
\* by no more than the wall clock has since play: the part of a tick's elapsed
\* time that overshoots the timestep is counted once.
C31_TimeFollowsClock ==
  run.started => currentTime - run.t0 <= run.wall

\* The loop has ended: the animation is completed, the playing flag is false
\* and the browser holds no frame callback of the engine.
Finished ==
  /\ completed
  /\ ~isPlaying
  /\ animationFrameId = NULL
  /\ frames = {}

\* C32: once play has started the loop and the browser keeps running the frame
\* callbacks, the engine eventually is completed with the playing flag false
\* and no callback pending, and no callback renders a frame at a time beyond
\* the duration.
C32_PlayTerminates ==
  /\ run.started ~> Finished
  /\ [][lastOp'.op = "frame" => currentTime' <= duration']_vars

\* A run of the loop that has rendered frames has ended.
C32_Witness ==
  /\ run.started
  /\ Finished
  /\ currentTime > run.t0

\* Whether the step is a call of seek, forward or back or a frame callback
\* that runs _updateFrame to its end; the frame is that of currentTime'.
FrameUpdated ==
  /\ rules # <<>>
  /\ rules' = rules
  /\ threw' = NoError
  /\ \/ lastOp'.op \in {"seek", "forward", "back"} /\ Renders(lastOp')
     \/ lastOp'.op = "frame" /\ currentTime' # currentTime

\* C33: in every frame update the change rate of each rule in progress is a
\* number between 0 and 1, the divisor being other than 0, also when the
\* update is to the time the engine is at and that time is the rule's start.
C33_ChangeRateDefined ==
  [][FrameUpdated =>
       \A i \in 1..Len(rules) :
         InProgress(rules[i], currentTime') =>
           LET changeRate == RuleChange(rules[i], currentTime, currentTime').changeRate
           IN  /\ IsFinite(changeRate)
               /\ RLeq(R(0), changeRate)
               /\ RLeq(changeRate, R(1))]_vars

\* C34: whenever rules are defined, the current time lies between 0 and the
\* duration, a second define with a shorter set of rules included.
C34_TimeWithinDuration ==
  rules # <<>> => (0 <= currentTime /\ currentTime <= duration)

\* C35: the browser holds at most one frame callback of the engine, the one
\* the engine has the handle of, and after every call the playing flag is true
\* exactly when a callback is pending.
C35_OneCallbackPending ==
  /\ Cardinality(frames) <= 1
  /\ isPlaying <=> frames # {}
  /\ \A f \in frames : animationFrameId = f.id
  /\ frames = {} => animationFrameId = NULL

\* A frame callback has run and rendered, and its successor is pending.
C35_Witness ==
  /\ lastOp.op = "frame"
  /\ currentTime > 0
  /\ isPlaying
  /\ Cardinality(frames) = 1

\* Whether a rule other than the i-th sets the property for the i-th rule's
\* selector.
SetByOther(rs, i, prop) ==
  \E j \in 1..Len(rs) :
    /\ j # i
    /\ rs[j].selector = rs[i].selector
    /\ prop \in DOMAIN getEndStyles(rs[j])

\* C36: after a seek(1) that returns, the cache holds the end value of every
\* rule for each of its properties that no other rule sets, the styles of an
\* instant rule at the duration included.
C36_FinalFrame ==
  [][(/\ lastOp'.op = "seek"
      /\ Clamped(lastOp'.p) = R(1)
      /\ rules # <<>>
      /\ threw' = NoError)
     => \A i \in 1..Len(rules) : \A prop \in DOMAIN getEndStyles(rules[i]) :
          ~SetByOther(rules, i, prop) =>
            /\ prop \in DOMAIN CachedStyles(activeStyles', rules[i].selector)
            /\ CachedStyles(activeStyles', rules[i].selector)[prop]
                 = getEndStyles(rules[i])[prop]]_vars

\* C37: whatever handshake and inspector messages a backend bundle has heard,
\* it has run initializeMessageBus and initializeExtendedWindowOperations at
\* most once and emitted 'backendReady' at most once, and it has emitted
\* 'backendReady' only if it has run both.
C37_BackendInitializedOnce ==
  \A i \in 1..Len(backends) :
    /\ backends[i].messageBusInits <= 1
    /\ backends[i].windowInits <= 1
    /\ backends[i].readyEmits <= 1
    /\ backends[i].readyEmits = 1 =>
         /\ backends[i].initialized
         /\ backends[i].messageBusInits = 1
         /\ backends[i].windowInits = 1

\* A bundle that has answered a handshake and heard 'inspectorStart' since is
\* about to hear another handshake.
C37_Witness ==
  \E i \in 1..Len(backends) :
    /\ backends[i].readyEmits = 1
    /\ backends[i].inspectorRunning
    /\ page.toBackend # <<>>
    /\ Head(page.toBackend) = "handshake"

\* Whether the step posts a 'handshake' to the backend.
HandshakeEmitted ==
  page'.toBackend = Append(page.toBackend, "handshake")

\* The timeouts without the k-th.
Others(timers, k) == SubSeq(timers, 1, k - 1) \o SubSeq(timers, k + 1, Len(timers))

\* Whether the step runs a due timeout of retry.
TimeoutRan ==
  \E k \in 1..Len(content.timers) :
    /\ content.timers[k] = 0
    /\ \/ content'.timers = Others(content.timers, k)
       \/ content'.timers = Append(Others(content.timers, k), RETRY_DELAY)

\* The retry loop goes on: the backend is not marked initialized and the
\* background is connected.
Retrying == ~content.backendInitialized /\ ~content.backgroundDisconnected

\* C38: a 'handshake' is posted only once a detection has succeeded and never
\* once 'backendReady' has been intercepted or the background has
\* disconnected; while neither is the case after a successful detection, a
\* retry is pending within 500 ms, each retry that runs posts a 'handshake'
\* and each 'handshake' posted arms the next retry 500 ms later; and once a
\* bundle has answered with 'backendReady', no retry stays pending.
C38_HandshakeRetry ==
  /\ [][HandshakeEmitted =>
          /\ content'.installs >= 1
          /\ Retrying
          /\ content'.timers # <<>>
          /\ content'.timers[Len(content'.timers)] = RETRY_DELAY]_vars
  /\ [][(TimeoutRan /\ Retrying) => HandshakeEmitted]_vars
  /\ []((Retrying /\ content.installs >= 1) =>
          /\ content.timers # <<>>
          /\ \A k \in 1..Len(content.timers) : content.timers[k] <= RETRY_DELAY)
  /\ (\E i \in 1..Len(backends) : backends[i].readyEmits > 0)
       ~> (content.timers = <<>>)

\* The loop has stopped after 'backendReady' was intercepted, a 'handshake' of
\* a later retry being still on its way.
C38_Witness ==
  /\ content.backendInitialized
  /\ content.timers = <<>>
  /\ \E k \in 1..Len(page.toBackend) : page.toBackend[k] = "handshake"

=============================================================================
